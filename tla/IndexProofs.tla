---------------------------- MODULE IndexProofs ----------------------------
(***************************************************************************)
(* The incremental index is the one built from its live documents, and the *)
(* shards are a partition of the oracle: for every schema, every number of *)
(* shards, every width of the internal IDs and every sequence of puts and  *)
(* erasures.  Merging what the shards cut to the k best gives the k best   *)
(* of the whole.  And the posting lists of segment files are read as they  *)
(* were written, or refused, for every width of integers and groups.       *)
(*                                                                         *)
(* An index is right when its IDs are (IdsOK), its lists are (Exact) and   *)
(* its statistics are the expected ones.  The three are carried over a put *)
(* one after the other, the last two in two halves: what is left when the  *)
(* previous version of the document is taken out, and what its new version *)
(* adds to that.                                                           *)
(*                                                                         *)
(* A heap is right when it has the k best of what it was offered (IsBest). *)
(* There is one such set, and the k best of the parts have it.             *)
(*                                                                         *)
(* An integer is what is shifted out of it and what is left (SumsToValue); *)
(* its groups are its digits, of which there is one sequence without zeros *)
(* at the end (OneEncoding).  Lists are followed value by value, each with *)
(* the bytes before it: reading goes on where the bytes of the last value  *)
(* end (DeltasDecode, PostingsDecode), and whatever is accepted is what    *)
(* would have been written (IsList, ArePostings).                          *)
(***************************************************************************)
EXTENDS LocalShards, TopK, CodecInput, ListFacts, TLAPS, FiniteSetTheorems

IsDocument(doc) ==
  /\ doc.version \in Nat /\ doc.deleted \in BOOLEAN
  /\ \A f \in DOMAIN doc.text : doc.text[f] \in Seq(STRING \ {""})

RecordOK(index, id) ==
  /\ IsDocument(index.documents[id].doc) /\ index.documents[id].doc.id = id
  /\ index.documents[id].internal \in DOMAIN index.externalIds
  /\ index.externalIds[index.documents[id].internal] = id
  /\ index.documents[id].analyzed = IF index.documents[id].doc.deleted THEN NoText
                                    ELSE index.documents[id].doc.text

\* The internal IDs are 1, 2, ... in the order of the first puts; the counter
\* may have wrapped around to 0.
IdsOK(index) ==
  /\ IsFiniteSet(DOMAIN index.documents)
  /\ DOMAIN index.externalIds = 1..Cardinality(DOMAIN index.documents)
  /\ Cardinality(DOMAIN index.documents) <= MaxInternalId
  /\ index.nextId = (Cardinality(DOMAIN index.documents) + 1) % 2^IdWidth
  /\ \A id \in DOMAIN index.documents : RecordOK(index, id)

\* The text that the new version of a document has in the index.
NewText(doc) == IF doc.deleted THEN NoText ELSE doc.text

\* What a put does to the documents.
Replaced(index, doc, next) ==
  /\ DOMAIN next.documents = DOMAIN index.documents \cup {doc.id}
  /\ \A id \in DOMAIN index.documents :
       id # doc.id => next.documents[id] = index.documents[id]
  /\ next.documents[doc.id] =
       [internal |-> InternalIdFor(index, doc.id), doc |-> doc, analyzed |-> NewText(doc)]

\* Internal IDs are not shared.
LEMMA InternalDistinct ==
  ASSUME NEW index, IdsOK(index), NEW d \in DOMAIN index.documents,
         NEW e \in DOMAIN index.documents,
         index.documents[d].internal = index.documents[e].internal
  PROVE  d = e
BY DEF IdsOK, RecordOK

\* The counter is that of the next ID as long as there is one.
LEMMA CounterIs ==
  ASSUME NEW index, IdsOK(index)
  PROVE  /\ Cardinality(DOMAIN index.documents) \in Nat
         /\ Exhausted(index) <=> Cardinality(DOMAIN index.documents) = MaxInternalId
         /\ ~Exhausted(index) =>
              index.nextId = Cardinality(DOMAIN index.documents) + 1
<1> DEFINE n == Cardinality(DOMAIN index.documents)
           B == 2^IdWidth
<1>1. n \in Nat
  BY FS_CardinalityType DEF IdsOK
<1>2. MaxInternalId \in Nat /\ B \in Nat /\ MaxInternalId < B
  BY WidthAssumption
<1>3. n <= MaxInternalId /\ index.nextId = (n + 1) % B
  BY DEF IdsOK
<1> HIDE DEF n, B
<1>4. CASE n + 1 < B
  <2>1. index.nextId = n + 1
    BY <1>1, <1>2, <1>3, <1>4
  <2>2. Exhausted(index) <=> n + 1 > MaxInternalId
    BY <2>1, <1>1 DEF Exhausted
  <2>3. Exhausted(index) <=> n = MaxInternalId
    BY <2>2, <1>1, <1>2, <1>3
  <2> QED BY <1>1, <2>1, <2>3 DEF n
<1>5. CASE n + 1 >= B
  <2>1. n + 1 = B /\ n = MaxInternalId
    BY <1>1, <1>2, <1>3, <1>5
  <2>2. index.nextId = 0
    BY <1>1, <1>2, <1>3, <2>1
  <2>3. Exhausted(index)
    BY <2>2 DEF Exhausted
  <2> QED BY <1>1, <2>1, <2>3 DEF n
<1> QED BY <1>1, <1>2, <1>4, <1>5

\* The documents after a put.
LEMMA UpdatedDocuments ==
  ASSUME NEW index, NEW doc
  PROVE  Replaced(index, doc, Updated(index, doc))
<1> DEFINE record == [internal |-> InternalIdFor(index, doc.id), doc |-> doc,
                      analyzed |-> NewText(doc)]
<1>1. Updated(index, doc).documents = With(index.documents, doc.id, record)
  BY DEF Updated, NewText
<1> HIDE DEF record
<1> QED BY <1>1 DEF Replaced, With, record

\* Known is kept, and the internal ID with it.
LEMMA UpdatedIds ==
  ASSUME NEW index, IdsOK(index), NEW doc, IsDocument(doc), ~PutFails(index, doc)
  PROVE  IdsOK(Updated(index, doc))
<1> DEFINE next == Updated(index, doc)
           id == doc.id
           i == InternalIdFor(index, id)
           D == DOMAIN index.documents
           n == Cardinality(D)
<1>1. Replaced(index, doc, next)
  BY UpdatedDocuments
<1>2. next.externalIds = With(index.externalIds, i, id)
  BY DEF Updated
<1>3. next.nextId = IF Known(index, id) THEN index.nextId
                    ELSE (index.nextId + 1) % 2^IdWidth
  BY DEF Updated
<1> HIDE DEF next
<1>4. IsFiniteSet(D) /\ n \in Nat
  BY FS_CardinalityType DEF IdsOK
<1>5. DOMAIN next.documents = D \cup {id}
  BY <1>1 DEF Replaced
<1>6. /\ DOMAIN next.externalIds = DOMAIN index.externalIds \cup {i}
      /\ next.externalIds[i] = id
      /\ \A x \in DOMAIN index.externalIds :
           x # i => next.externalIds[x] = index.externalIds[x]
  BY <1>2 DEF With
<1>7. /\ next.documents[id].doc = doc /\ next.documents[id].internal = i
      /\ next.documents[id].analyzed = NewText(doc)
  BY <1>1 DEF Replaced
<1>8. RecordOK(next, id)
  BY <1>6, <1>7 DEF RecordOK, NewText
<1>9. ASSUME NEW d \in D, d # id, index.documents[d].internal # i
      PROVE  RecordOK(next, d)
  <2>1. next.documents[d] = index.documents[d]
    BY <1>1, <1>9 DEF Replaced
  <2>2. RecordOK(index, d)
    BY DEF IdsOK
  <2> QED BY <2>1, <2>2, <1>6, <1>9 DEF RecordOK
<1>10. CASE Known(index, id)
  <2>1. id \in D /\ D \cup {id} = D /\ i = index.documents[id].internal
    BY <1>10 DEF Known, InternalIdFor
  <2>2. i \in DOMAIN index.externalIds
    BY <2>1 DEF IdsOK, RecordOK
  <2>3. DOMAIN next.documents = D /\ DOMAIN next.externalIds = DOMAIN index.externalIds
    BY <1>5, <1>6, <2>1, <2>2
  <2>4. \A d \in D : d # id => index.documents[d].internal # i
    BY <2>1, InternalDistinct
  <2>5. \A d \in D : RecordOK(next, d)
    BY <2>4, <1>8, <1>9
  <2>6. next.nextId = index.nextId
    BY <1>3, <1>10
  <2>7. /\ DOMAIN index.externalIds = 1..n /\ n <= MaxInternalId
        /\ index.nextId = (n + 1) % 2^IdWidth
    BY DEF IdsOK
  <2>8. /\ IsFiniteSet(DOMAIN next.documents)
        /\ DOMAIN next.externalIds = 1..Cardinality(DOMAIN next.documents)
        /\ Cardinality(DOMAIN next.documents) <= MaxInternalId
        /\ next.nextId = (Cardinality(DOMAIN next.documents) + 1) % 2^IdWidth
    BY <1>4, <2>3, <2>6, <2>7, Zenon
  <2>9. \A d \in DOMAIN next.documents : RecordOK(next, d)
    BY <2>3, <2>5
  <2>10. IdsOK(next)
    BY <2>8, <2>9, Zenon DEF IdsOK
  <2> QED BY <2>10 DEF next
<1>11. CASE ~Known(index, id)
  <2>1. id \notin D /\ i = index.nextId /\ ~Exhausted(index)
    BY <1>11 DEF Known, InternalIdFor, PutFails
  <2>2. i = n + 1 /\ n + 1 <= MaxInternalId
    <3>1. i = n + 1 /\ n # MaxInternalId
      BY <2>1, CounterIs
    <3>2. n <= MaxInternalId /\ MaxInternalId \in Nat
      BY WidthAssumption DEF IdsOK
    <3> QED BY <3>1, <3>2, <1>4
  <2>3. IsFiniteSet(D \cup {id}) /\ Cardinality(D \cup {id}) = n + 1
    BY <1>4, <2>1, FS_AddElement
  <2>4. DOMAIN next.externalIds = 1..(n + 1)
    <3>1. DOMAIN index.externalIds = 1..n
      BY DEF IdsOK
    <3> HIDE DEF n
    <3> QED BY <3>1, <1>4, <1>6, <2>2
  <2>5. \A d \in D : d # id => index.documents[d].internal # i
    <3> SUFFICES ASSUME NEW d \in D PROVE index.documents[d].internal # i
      OBVIOUS
    <3>1. index.documents[d].internal \in 1..n
      BY DEF IdsOK, RecordOK
    <3> HIDE DEF n
    <3> QED BY <3>1, <2>2, <1>4
  <2>6. \A d \in D \cup {id} : RecordOK(next, d)
    BY <2>5, <1>8, <1>9
  <2>7. next.nextId = ((n + 1) + 1) % 2^IdWidth
    BY <1>3, <1>11, <2>1, <2>2
  <2> HIDE DEF n
  <2>8. /\ IsFiniteSet(DOMAIN next.documents)
        /\ DOMAIN next.externalIds = 1..Cardinality(DOMAIN next.documents)
        /\ Cardinality(DOMAIN next.documents) <= MaxInternalId
        /\ next.nextId = (Cardinality(DOMAIN next.documents) + 1) % 2^IdWidth
    BY <1>5, <2>2, <2>3, <2>4, <2>7, Zenon
  <2>9. \A d \in DOMAIN next.documents : RecordOK(next, d)
    BY <1>5, <2>6
  <2>10. IdsOK(next)
    BY <2>8, <2>9, Zenon DEF IdsOK
  <2> QED BY <2>10 DEF next
<1> QED BY <1>10, <1>11

-----------------------------------------------------------------------------
(* Posting lists                                                           *)

DocOf(S) == [posting \in S |-> posting.doc]
ListOf(S) == Ascending(DocOf(S))

\* One posting for each document.
Postings(S) ==
  /\ IsFiniteSet(S)
  /\ \A p \in S : p.doc \in Nat
  /\ \A p, q \in S : p.doc = q.doc => p = q

\* The list of a set of postings, and how such a list is recognised.
LEMMA ListOfIs ==
  ASSUME NEW S, Postings(S)
  PROVE  /\ Enumerates(DocOf(S), S, Cardinality(S), ListOf(S))
         /\ Cardinality(S) \in Nat
         /\ \A n \in Nat : \A t : Enumerates(DocOf(S), S, n, t) => t = ListOf(S)
<1> DEFINE key == DocOf(S)
<1>1. DOMAIN key = S /\ \A p \in S : key[p] = p.doc
  BY DEF DocOf
<1> HIDE DEF key
<1>2. \A p \in S : key[p] \in Nat
  BY <1>1 DEF Postings
<1>3. Enumerates(key, S, Cardinality(S), Ascending(key)) /\ Cardinality(S) \in Nat
  BY <1>1, <1>2, AscendingEnumerates DEF Postings
<1>4. \A n \in Nat : \A t : Enumerates(key, S, n, t) => t = Ascending(key)
  BY <1>2, <1>3, SameOrder
<1> QED BY <1>3, <1>4 DEF ListOf, key

\* The order of a list, by its documents.
LEMMA ListOfOrder ==
  ASSUME NEW S, Postings(S), NEW n, NEW s
  PROVE  Enumerates(DocOf(S), S, n, s) <=>
           /\ s \in [1..n -> S]
           /\ \A x \in S : \E i \in 1..n : s[i] = x
           /\ \A i, j \in 1..n : i < j => s[i].doc < s[j].doc
BY DEF Enumerates, DocOf

\* No postings, no list.
LEMMA ListOfEmpty ==
  ASSUME NEW S, Postings(S)
  PROVE  ListOf(S) = <<>> <=> S = {}
<1>1. /\ ListOf(S) \in [1..Cardinality(S) -> S] /\ Cardinality(S) \in Nat
      /\ \A x \in S : \E i \in 1..Cardinality(S) : ListOf(S)[i] = x
  BY ListOfIs DEF Enumerates
<1>2. CASE S = {}
  <2>1. Cardinality(S) = 0
    BY <1>2, FS_EmptySet
  <2> QED BY <1>1, <1>2, <2>1
<1>3. CASE S # {}
  <2>1. Cardinality(S) # 0
    BY <1>3, FS_EmptySet DEF Postings
  <2>2. 1 \in DOMAIN ListOf(S)
    BY <1>1, <2>1
  <2> QED BY <1>3, <2>2
<1> QED BY <1>2, <1>3

\* A subset of a set of postings, and one more of another document.
LEMMA PostingsKept ==
  ASSUME NEW S, Postings(S), NEW T \in SUBSET S
  PROVE  Postings(T)
BY FS_Subset DEF Postings

LEMMA PostingsAdded ==
  ASSUME NEW S, Postings(S), NEW x, x.doc \in Nat, \A p \in S : p.doc # x.doc
  PROVE  Postings(S \cup {x})
<1>1. IsFiniteSet(S \cup {x})
  BY FS_AddElement DEF Postings
<1> QED BY <1>1 DEF Postings

\* Erasing a document from the list of a set gives the list of the rest.
LEMMA ListWithout ==
  ASSUME NEW S, Postings(S), NEW internal
  PROVE  Without(ListOf(S), internal) = ListOf({p \in S : p.doc # internal})
<1> DEFINE s == ListOf(S)
           n == Cardinality(S)
           T == {p \in S : p.doc # internal}
           P == {p \in 1..n : s[p].doc # internal}
           t == Picked(s, P)
           m == Cardinality(P)
<1>1. Enumerates(DocOf(S), S, n, s) /\ n \in Nat
  BY ListOfIs
<1>2. s \in [1..n -> S] /\ \A x \in S : \E i \in 1..n : s[i] = x
  BY <1>1 DEF Enumerates
<1>3. Without(s, internal) = t
  BY <1>2 DEF Without
<1>4. P \in SUBSET (1..n)
  OBVIOUS
<1>5. Enumerates(DocOf(S), {s[p] : p \in P}, m, t) /\ m \in Nat
  <2> HIDE DEF P, s, n
  <2> QED BY <1>1, <1>4, PickedEnumerates
<1> HIDE DEF s, n, t, m
<1>6. {s[p] : p \in P} = T
  BY <1>2
<1>7. Postings(T)
  <2>1. T \in SUBSET S
    OBVIOUS
  <2> HIDE DEF T
  <2> QED BY <2>1, PostingsKept
<1>8. Enumerates(DocOf(S), T, m, t)
  BY <1>5, <1>6
<1>9. T \subseteq S
  OBVIOUS
<1> HIDE DEF T
<1>10. Enumerates(DocOf(T), T, m, t)
  BY <1>8, <1>9 DEF Enumerates, DocOf
<1>11. t = ListOf(T)
  BY <1>5, <1>7, <1>10, ListOfIs
<1> QED BY <1>3, <1>11 DEF s, T

\* A posting of another document, pushed and sorted, gives the list of both.
LEMMA ListAdd ==
  ASSUME NEW S, Postings(S), NEW x, x.doc \in Nat, \A p \in S : p.doc # x.doc
  PROVE  AddPosting(ListOf(S), x) = ListOf(S \cup {x})
<1> DEFINE s == ListOf(S)
           n == Cardinality(S)
           T == S \cup {x}
           all == Append(s, x)
           key == DocOf(T)
           k == [p \in 1..(n + 1) |-> key[all[p]]]
<1>1. Enumerates(DocOf(S), S, n, s) /\ n \in Nat
  BY ListOfIs
<1>2. /\ s \in [1..n -> S] /\ \A y \in S : \E i \in 1..n : s[i] = y
      /\ \A i, j \in 1..n : i < j => s[i].doc < s[j].doc
  BY <1>1, ListOfOrder
<1> HIDE DEF s, n
<1>3. s \in Seq(S) /\ Len(s) = n
  BY <1>1, <1>2
<1>4. /\ DOMAIN all = 1..(n + 1) /\ all[n + 1] = x
      /\ \A p \in 1..n : all[p] = s[p]
  BY <1>1, <1>3
<1>5. all \in [1..(n + 1) -> T]
  <2>1. s \in Seq(T) /\ x \in T
    BY <1>1, <1>2
  <2>2. all \in Seq(T) /\ Len(all) = n + 1
    <3> HIDE DEF T
    <3> QED BY <2>1, <1>3
  <2> HIDE DEF all, T
  <2> QED BY <2>2
<1> HIDE DEF all
<1>6. \A p \in 1..(n + 1) : p \in 1..n \/ p = n + 1
  BY <1>1
<1>8. \A y \in T : \E p \in 1..(n + 1) : all[p] = y
  <2> TAKE y \in T
  <2>1. CASE y \in S
    BY <2>1, <1>1, <1>2, <1>4
  <2>2. CASE y = x
    BY <2>2, <1>1, <1>4
  <2> QED BY <2>1, <2>2
<1>9. Postings(T)
  BY PostingsAdded
<1>10. \A y \in T : key[y] = y.doc
  BY DEF DocOf
<1>11. \A y \in T : key[y] \in Nat
  BY <1>9, <1>10 DEF Postings
<1>12. \A p, q \in 1..(n + 1) : key[all[p]] = key[all[q]] => p = q
  <2> SUFFICES ASSUME NEW p \in 1..(n + 1), NEW q \in 1..(n + 1),
                      all[p].doc = all[q].doc
               PROVE  p = q
    BY <1>5, <1>10
  <2>1. CASE p \in 1..n /\ q \in 1..n
    <3>1. s[p].doc \in Nat /\ s[q].doc \in Nat /\ s[p].doc = s[q].doc
      BY <2>1, <1>2, <1>4 DEF Postings
    <3>2. ~(p < q) /\ ~(q < p)
      BY <2>1, <3>1, <1>2
    <3> QED BY <2>1, <3>2, <1>1
  <2>2. CASE p \in 1..n /\ q = n + 1
    BY <2>2, <1>2, <1>4
  <2>3. CASE p = n + 1 /\ q \in 1..n
    BY <2>3, <1>2, <1>4
  <2> QED BY <2>1, <2>2, <2>3, <1>6
<1>13. Enumerates(key, T, n + 1, Sorted(all, k))
  <2> DEFINE m == n + 1
  <2>1. m \in Nat
    BY <1>1
  <2>2. all \in [1..m -> T] /\ \A y \in T : \E p \in 1..m : all[p] = y
    BY <1>5, <1>8
  <2>3. \A p, q \in 1..m : key[all[p]] = key[all[q]] => p = q
    BY <1>12
  <2>4. k = [p \in 1..m |-> key[all[p]]]
    OBVIOUS
  <2> HIDE DEF key, T, m, k
  <2>5. Keyed(key, T, m, all, k)
    BY <2>1, <2>2, <2>3, <2>4, <1>11 DEF Keyed
  <2>6. Enumerates(key, T, m, Sorted(all, k))
    BY <2>5, SortedEnumerates, Zenon
  <2> QED BY <2>6 DEF m
<1>14. k = [p \in DOMAIN all |-> all[p].doc]
  BY <1>4, <1>5, <1>10
<1>15. AddPosting(s, x) = Sorted(all, k)
  <2> HIDE DEF k
  <2> QED BY <1>14 DEF AddPosting, all
<1>16. Sorted(all, k) = ListOf(T)
  <2>1. n + 1 \in Nat
    BY <1>1
  <2> HIDE DEF k, T
  <2>2. \A m \in Nat : \A t : Enumerates(key, T, m, t) => t = ListOf(T)
    BY <1>9, ListOfIs
  <2> HIDE DEF key
  <2> QED BY <2>1, <2>2, <1>13, Zenon
<1> QED BY <1>15, <1>16 DEF s

-----------------------------------------------------------------------------
(* A put leaves the lists exact                                            *)

Holders(index, key) == {d \in LiveIds(index) : key \in TermsOf(index.documents[d].doc.text)}

Contribution(index, d, key) ==
  PostingOf(index.documents[d].internal, index.documents[d].doc.text, key)

\* The postings of a term without those of one internal ID.
Remaining(index, key, internal) ==
  {p \in ReferencePostings(index, key) : p.doc # internal}

\* A put that is accepted is given an internal ID that no other document has.
LEMMA InternalFree ==
  ASSUME NEW index, IdsOK(index), NEW doc, ~PutFails(index, doc)
  PROVE  /\ InternalIdFor(index, doc.id) \in Nat
         /\ \A d \in DOMAIN index.documents :
              index.documents[d].internal = InternalIdFor(index, doc.id) <=> d = doc.id
<1> DEFINE i == InternalIdFor(index, doc.id)
           n == Cardinality(DOMAIN index.documents)
<1>1. /\ n \in Nat
      /\ \A d \in DOMAIN index.documents : index.documents[d].internal \in 1..n
  BY CounterIs DEF IdsOK, RecordOK
<1>2. CASE Known(index, doc.id)
  <2>1. doc.id \in DOMAIN index.documents /\ i = index.documents[doc.id].internal
    BY <1>2 DEF Known, InternalIdFor
  <2> HIDE DEF i
  <2>2. i \in Nat
    BY <1>1, <2>1
  <2>3. \A d \in DOMAIN index.documents : index.documents[d].internal = i <=> d = doc.id
    BY <2>1, InternalDistinct
  <2> QED BY <2>2, <2>3 DEF i
<1>3. CASE ~Known(index, doc.id)
  <2>1. doc.id \notin DOMAIN index.documents /\ i = index.nextId /\ ~Exhausted(index)
    BY <1>3 DEF Known, InternalIdFor, PutFails
  <2>2. i = n + 1
    BY <2>1, CounterIs
  <2> HIDE DEF i, n
  <2>3. \A d \in DOMAIN index.documents : index.documents[d].internal # i /\ d # doc.id
    BY <1>1, <2>1, <2>2
  <2>4. i \in Nat
    BY <1>1, <2>2
  <2> QED BY <2>3, <2>4 DEF i
<1> QED BY <1>2, <1>3

\* What the live documents contribute to a term is one posting for each.
LEMMA ReferenceIsPostings ==
  ASSUME NEW index, IdsOK(index), NEW key
  PROVE  Postings(ReferencePostings(index, key))
<1> DEFINE H == Holders(index, key)
           c == [d \in H |-> Contribution(index, d, key)]
           R == ReferencePostings(index, key)
<1>1. R = {Contribution(index, d, key) : d \in H}
  BY DEF ReferencePostings, Contribution, Holders
<1>2. H \in SUBSET DOMAIN index.documents
  BY DEF Holders, LiveIds
<1> HIDE DEF H, R
<1>3. c \in Surjection(H, R)
  BY <1>1 DEF Surjection
<1>4. IsFiniteSet(H)
  BY <1>2, FS_Subset DEF IdsOK
<1>5. IsFiniteSet(R)
  <2> HIDE DEF c
  <2> QED BY <1>3, <1>4, FS_Surjection
<1>6. \A d \in H : Contribution(index, d, key).doc = index.documents[d].internal
  BY DEF Contribution, PostingOf
<1>7. \A d \in H : index.documents[d].internal \in Nat
  <2> TAKE d \in H
  <2>1. index.documents[d].internal \in 1..Cardinality(DOMAIN index.documents)
    BY <1>2 DEF IdsOK, RecordOK
  <2> QED BY <2>1, CounterIs
<1>8. \A d, e \in H : index.documents[d].internal = index.documents[e].internal => d = e
  BY <1>2, InternalDistinct
<1>9. \A p \in R : p.doc \in Nat
  BY <1>1, <1>6, <1>7
<1>10. \A p, q \in R : p.doc = q.doc => p = q
  <2> SUFFICES ASSUME NEW p \in R, NEW q \in R, p.doc = q.doc PROVE p = q
    OBVIOUS
  <2>1. PICK d \in H : p = Contribution(index, d, key)
    BY <1>1
  <2>2. PICK e \in H : q = Contribution(index, e, key)
    BY <1>1
  <2>3. d = e
    BY <2>1, <2>2, <1>6, <1>8
  <2> QED BY <2>1, <2>2, <2>3
<1> QED BY <1>5, <1>9, <1>10 DEF Postings, R

\* Exactness, term by term.
LEMMA ExactIs ==
  ASSUME NEW index
  PROVE  Exact(index) <=>
           \A key : /\ key \in DOMAIN index.fields <=> ReferencePostings(index, key) # {}
                    /\ key \in DOMAIN index.fields =>
                         index.fields[key] = ListOf(ReferencePostings(index, key))
<1>1. \A key : ReferenceList(index, key) = ListOf(ReferencePostings(index, key))
  BY DEF ReferenceList, ListOf, DocOf
<1> DEFINE U == UNION {TermsOf(index.documents[id].doc.text) : id \in LiveIds(index)}
<1>2. \A key : key \in U <=> ReferencePostings(index, key) # {}
  BY DEF ReferencePostings
<1>3. Exact(index) <=>
        /\ DOMAIN index.fields = U
        /\ \A key \in DOMAIN index.fields : index.fields[key] = ReferenceList(index, key)
  BY DEF Exact
<1> HIDE DEF U
<1>4. DOMAIN index.fields = U <=> \A key : key \in DOMAIN index.fields <=> key \in U
  OBVIOUS
<1> QED BY <1>1, <1>2, <1>3, <1>4

\* A term that the previous version does not have, has no posting of it.
LEMMA UntouchedTerm ==
  ASSUME NEW index, IdsOK(index), NEW doc, ~PutFails(index, doc), NEW key,
         key \notin TermsOf(PreviousText(index, doc.id))
  PROVE  Remaining(index, key, InternalIdFor(index, doc.id)) = ReferencePostings(index, key)
<1> DEFINE i == InternalIdFor(index, doc.id)
<1>1. ASSUME NEW p \in ReferencePostings(index, key) PROVE p.doc # i
  <2>1. PICK d \in Holders(index, key) : p = Contribution(index, d, key)
    BY DEF ReferencePostings, Contribution, Holders
  <2>2. p.doc = index.documents[d].internal
    BY <2>1 DEF Contribution, PostingOf
  <2>3. /\ d \in DOMAIN index.documents /\ ~index.documents[d].doc.deleted
        /\ key \in TermsOf(index.documents[d].doc.text)
    BY DEF Holders, LiveIds
  <2>4. index.documents[d].analyzed = index.documents[d].doc.text
    BY <2>3 DEF IdsOK, RecordOK
  <2>5. d # doc.id
    BY <2>3, <2>4 DEF PreviousText, Known
  <2> QED BY <2>2, <2>3, <2>5, InternalFree
<1> QED BY <1>1 DEF Remaining

\* Taking out the previous version leaves the lists of the other documents.
LEMMA RemovedLists ==
  ASSUME NEW index, IdsOK(index), Exact(index), NEW doc, ~PutFails(index, doc),
         NEW i, i = InternalIdFor(index, doc.id),
         NEW left, left = RemovePostings(index.fields, i, PreviousText(index, doc.id)), NEW key
  PROVE  /\ key \in DOMAIN left <=> Remaining(index, key, i) # {}
         /\ key \in DOMAIN left => left[key] = ListOf(Remaining(index, key, i))
<1> DEFINE before == PreviousText(index, doc.id)
           F == index.fields
           all == [k \in DOMAIN F |-> IF k \in TermsOf(before) THEN Without(F[k], i) ELSE F[k]]
<1>1. left = [k \in {x \in DOMAIN all : all[x] # <<>>} |-> all[k]]
  BY DEF RemovePostings, Restrict
<1>2. DOMAIN all = DOMAIN F
  OBVIOUS
<1>3. /\ key \in DOMAIN F <=> ReferencePostings(index, key) # {}
      /\ key \in DOMAIN F => F[key] = ListOf(ReferencePostings(index, key))
  BY ExactIs
<1>4. Postings(ReferencePostings(index, key))
  BY ReferenceIsPostings
<1>5. Remaining(index, key, i) \in SUBSET ReferencePostings(index, key)
  BY DEF Remaining
<1>6. Postings(Remaining(index, key, i))
  BY <1>4, <1>5, PostingsKept
<1>7. ASSUME key \in DOMAIN F PROVE all[key] = ListOf(Remaining(index, key, i))
  <2>1. CASE key \in TermsOf(before)
    <3>1. all[key] = Without(F[key], i)
      BY <1>7, <2>1
    <3>2. Without(F[key], i) = ListOf({p \in ReferencePostings(index, key) : p.doc # i})
      BY <1>3, <1>4, <1>7, ListWithout
    <3> QED BY <3>1, <3>2 DEF Remaining
  <2>2. CASE key \notin TermsOf(before)
    <3>1. all[key] = F[key]
      BY <1>7, <2>2
    <3>2. Remaining(index, key, i) = ReferencePostings(index, key)
      BY <2>2, UntouchedTerm
    <3> QED BY <1>3, <1>7, <3>1, <3>2
  <2> QED BY <2>1, <2>2
<1> HIDE DEF all
<1>8. key \in DOMAIN left <=> key \in DOMAIN F /\ all[key] # <<>>
  BY <1>1, <1>2
<1>9. key \in DOMAIN left => left[key] = all[key]
  BY <1>1
<1>10. ListOf(Remaining(index, key, i)) = <<>> <=> Remaining(index, key, i) = {}
  BY <1>6, ListOfEmpty
<1> QED BY <1>3, <1>5, <1>7, <1>8, <1>9, <1>10

\* The postings of a term after a put.
LEMMA ReferenceReplaced ==
  ASSUME NEW index, IdsOK(index), NEW doc, IsDocument(doc), ~PutFails(index, doc),
         NEW next, Replaced(index, doc, next), NEW i, i = InternalIdFor(index, doc.id), NEW key
  PROVE  ReferencePostings(next, key) =
           Remaining(index, key, i) \cup
             (IF key \in TermsOf(NewText(doc)) THEN {PostingOf(i, NewText(doc), key)} ELSE {})
<1> DEFINE H == Holders(index, key)
           G == Holders(next, key)
           id == doc.id
           D == DOMAIN index.documents
<1>1. /\ ReferencePostings(index, key) = {Contribution(index, d, key) : d \in H}
      /\ ReferencePostings(next, key) = {Contribution(next, d, key) : d \in G}
  BY DEF ReferencePostings, Contribution, Holders
<1>2. \A d : d # id => /\ d \in G <=> d \in H
                       /\ d \in H => Contribution(next, d, key) = Contribution(index, d, key)
  BY DEF Replaced, Holders, LiveIds, Contribution
<1>3. TermsOf(NoText) = {}
  BY DEF TermsOf, NoText
<1>4. /\ next.documents[id].doc = doc /\ next.documents[id].internal = i
      /\ id \in DOMAIN next.documents
  BY DEF Replaced
<1>5. id \in G <=> key \in TermsOf(NewText(doc))
  <2>1. id \in G <=> ~doc.deleted /\ key \in TermsOf(doc.text)
    BY <1>4 DEF Holders, LiveIds
  <2>2. doc.deleted \in BOOLEAN
    BY DEF IsDocument
  <2> QED BY <2>1, <2>2, <1>3 DEF NewText
<1>6. id \in G => Contribution(next, id, key) = PostingOf(i, NewText(doc), key)
  <2> SUFFICES ASSUME id \in G PROVE Contribution(next, id, key) = PostingOf(i, NewText(doc), key)
    OBVIOUS
  <2>1. ~doc.deleted
    BY <1>4 DEF Holders, LiveIds
  <2> QED BY <2>1, <1>4 DEF Contribution, NewText
<1>7. \A d \in H : Contribution(index, d, key).doc = i <=> d = id
  <2> TAKE d \in H
  <2>1. d \in D
    BY DEF Holders, LiveIds
  <2>2. Contribution(index, d, key).doc = index.documents[d].internal
    BY DEF Contribution, PostingOf
  <2> QED BY <2>1, <2>2, InternalFree
<1> HIDE DEF H, G
<1>8. Remaining(index, key, i) = {Contribution(index, d, key) : d \in H \ {id}}
  BY <1>1, <1>7 DEF Remaining
<1>9. {Contribution(next, d, key) : d \in G \ {id}} = {Contribution(index, d, key) : d \in H \ {id}}
  BY <1>2
<1>10. CASE key \in TermsOf(NewText(doc))
  <2>1. G = (G \ {id}) \cup {id}
    BY <1>5, <1>10
  <2>2. {Contribution(next, d, key) : d \in G} =
          {Contribution(next, d, key) : d \in G \ {id}} \cup {Contribution(next, id, key)}
    BY <2>1
  <2> QED BY <2>2, <1>1, <1>5, <1>6, <1>8, <1>9, <1>10
<1>11. CASE key \notin TermsOf(NewText(doc))
  <2>1. G = G \ {id}
    BY <1>5, <1>11
  <2> QED BY <2>1, <1>1, <1>8, <1>9, <1>11
<1> QED BY <1>10, <1>11

\* Adding the new version gives the lists of the index after the put.
LEMMA UpdatedExact ==
  ASSUME NEW index, IdsOK(index), Exact(index), NEW doc, IsDocument(doc), ~PutFails(index, doc)
  PROVE  Exact(Updated(index, doc))
<1> DEFINE next == Updated(index, doc)
           i == InternalIdFor(index, doc.id)
           left == RemovePostings(index.fields, i, PreviousText(index, doc.id))
           after == NewText(doc)
           F == next.fields
<1>1. Replaced(index, doc, next)
  BY UpdatedDocuments
<1>2. F = InsertPostings(left, i, after)
  BY DEF Updated, NewText
<1>3. i \in Nat
  BY InternalFree
<1> HIDE DEF next, left, i, after
<1>4. ASSUME NEW key
      PROVE  /\ key \in DOMAIN F <=> ReferencePostings(next, key) # {}
             /\ key \in DOMAIN F => F[key] = ListOf(ReferencePostings(next, key))
  <2> DEFINE R == Remaining(index, key, i)
  <2>1. /\ key \in DOMAIN left <=> R # {}
        /\ key \in DOMAIN left => left[key] = ListOf(R)
    BY RemovedLists DEF left, i
  <2>2. Postings(R)
    <3>1. R \in SUBSET ReferencePostings(index, key)
      BY DEF Remaining
    <3> HIDE DEF R
    <3> QED BY <3>1, ReferenceIsPostings, PostingsKept
  <2>3. ListAt(left, key) = ListOf(R)
    <3>1. R = {} => ListOf(R) = <<>>
      BY <2>2, ListOfEmpty
    <3> QED BY <2>1, <3>1 DEF ListAt
  <2>4. \A p \in R : p.doc # i
    BY DEF Remaining
  <2>5. ReferencePostings(next, key) =
          R \cup (IF key \in TermsOf(after) THEN {PostingOf(i, after, key)} ELSE {})
    BY <1>1, ReferenceReplaced DEF i, after
  <2> HIDE DEF R
  <2>6. CASE key \in TermsOf(after)
    <3> DEFINE x == PostingOf(i, after, key)
    <3>1. x.doc = i
      BY DEF PostingOf
    <3>2. key \in DOMAIN F /\ F[key] = AddPosting(ListAt(left, key), x)
      BY <1>2, <2>6 DEF InsertPostings
    <3> HIDE DEF x
    <3>3. AddPosting(ListOf(R), x) = ListOf(R \cup {x})
      BY <1>3, <2>2, <2>4, <3>1, ListAdd
    <3>4. ReferencePostings(next, key) = R \cup {x}
      BY <2>5, <2>6 DEF x
    <3> QED BY <2>3, <3>2, <3>3, <3>4
  <2>7. CASE key \notin TermsOf(after)
    <3>1. ReferencePostings(next, key) = R
      BY <2>5, <2>7
    <3>2. /\ key \in DOMAIN F <=> key \in DOMAIN left
          /\ key \in DOMAIN left => F[key] = left[key]
      BY <1>2, <2>7 DEF InsertPostings
    <3> QED BY <2>1, <3>1, <3>2
  <2> QED BY <2>6, <2>7
<1>5. Exact(next)
  BY <1>4, ExactIs
<1> QED BY <1>5 DEF next

-----------------------------------------------------------------------------
(* A put leaves the statistics as expected                                 *)

\* The lengths of a field in a set of documents, added up.
TotalOf(index, f, S) == SumFunction([id \in S |-> Len(index.documents[id].doc.text[f])])

\* The statistic of a field over a set of documents.
StatisticOf(index, f, S) == [count |-> Cardinality(S), total |-> TotalOf(index, f, S)]

\* The expected statistics, field by field.
LEMMA ExpectedIs ==
  ASSUME NEW index, NEW f
  PROVE  /\ f \in DOMAIN ExpectedStatistics(index) <=> LiveWith(index, f) # {}
         /\ f \in DOMAIN ExpectedStatistics(index) =>
              ExpectedStatistics(index)[f] = StatisticOf(index, f, LiveWith(index, f))
<1>1. DOMAIN ExpectedStatistics(index) =
        UNION {DOMAIN index.documents[id].doc.text : id \in LiveIds(index)}
  BY DEF ExpectedStatistics
<1>2. f \in DOMAIN ExpectedStatistics(index) =>
        ExpectedStatistics(index)[f] = StatisticOf(index, f, LiveWith(index, f))
  BY DEF ExpectedStatistics, StatisticOf, TotalOf
<1>3. f \in DOMAIN ExpectedStatistics(index) <=> LiveWith(index, f) # {}
  BY <1>1 DEF LiveWith
<1> QED BY <1>2, <1>3

\* Documents of an index that have a field, live ones: a finite set of
\* documents with a length.
FieldSet(index, f, S) ==
  /\ IsFiniteSet(S) /\ S \subseteq DOMAIN index.documents
  /\ \A d \in S : Len(index.documents[d].doc.text[f]) \in Nat

\* The sum over such a set, and over one document less.
LEMMA TotalStep ==
  ASSUME NEW index, NEW f, NEW S, FieldSet(index, f, S)
  PROVE  /\ TotalOf(index, f, S) \in Nat
         /\ S = {} => TotalOf(index, f, S) = 0
         /\ \A d \in S : TotalOf(index, f, S) =
              Len(index.documents[d].doc.text[f]) + TotalOf(index, f, S \ {d})
<1> DEFINE g == [id \in S |-> Len(index.documents[id].doc.text[f])]
<1>1. TotalOf(index, f, S) = SumFunctionOnSet(g, S)
  BY DEF TotalOf, SumFunction
<1>2. \A d \in S : g[d] = Len(index.documents[d].doc.text[f]) /\ g[d] \in Nat
  BY DEF FieldSet
<1> HIDE DEF g
<1>3. /\ SumFunctionOnSet(g, S) \in Nat
      /\ S = {} => SumFunctionOnSet(g, S) = 0
      /\ \A d \in S : SumFunctionOnSet(g, S) = g[d] + SumFunctionOnSet(g, S \ {d})
  BY <1>2, SumOver DEF FieldSet
<1>4. ASSUME NEW d \in S PROVE SumFunctionOnSet(g, S \ {d}) = TotalOf(index, f, S \ {d})
  <2> DEFINE R == S \ {d}
             h == [id \in R |-> Len(index.documents[id].doc.text[f])]
  <2>1. TotalOf(index, f, R) = SumFunctionOnSet(h, R)
    BY DEF TotalOf, SumFunction
  <2>2. \A e \in R : h[e] = g[e] /\ g[e] \in Nat
    BY <1>2
  <2>3. IsFiniteSet(R)
    BY FS_Subset DEF FieldSet
  <2> HIDE DEF h, R
  <2>4. SumFunctionOnSet(g, R) = SumFunctionOnSet(h, R)
    BY <2>2, <2>3, SumSame
  <2> QED BY <2>1, <2>4 DEF R
<1> QED BY <1>1, <1>2, <1>3, <1>4

\* It depends on the texts of those documents only.
LEMMA TotalSame ==
  ASSUME NEW index, NEW next, NEW f, NEW S, FieldSet(index, f, S),
         \A d \in S : next.documents[d] = index.documents[d]
  PROVE  TotalOf(next, f, S) = TotalOf(index, f, S)
BY DEF TotalOf

\* The live documents with a field are such a set.
LEMMA LiveFieldSet ==
  ASSUME NEW index, IdsOK(index), NEW f, NEW S \in SUBSET LiveWith(index, f)
  PROVE  FieldSet(index, f, S)
<1>1. S \in SUBSET DOMAIN index.documents
  BY DEF LiveWith, LiveIds
<1>2. IsFiniteSet(S)
  BY <1>1, FS_Subset DEF IdsOK
<1>3. ASSUME NEW d \in S PROVE Len(index.documents[d].doc.text[f]) \in Nat
  <2> DEFINE t == index.documents[d].doc.text[f]
             A == STRING \ {""}
  <2>1. t \in Seq(A)
    BY <1>1 DEF LiveWith, IdsOK, RecordOK, IsDocument
  <2> HIDE DEF t, A
  <2>2. Len(t) \in Nat
    BY <2>1
  <2> QED BY <2>2 DEF t
<1> QED BY <1>1, <1>2, <1>3 DEF FieldSet

\* The statistics of all documents but one.
StatisticsWithout(index, id, stats) ==
  \A f : /\ f \in DOMAIN stats <=> LiveWith(index, f) \ {id} # {}
         /\ f \in DOMAIN stats =>
              stats[f] = StatisticOf(index, f, LiveWith(index, f) \ {id})

\* Taking out the previous version leaves the statistics of the others.
LEMMA SubtractedStatistics ==
  ASSUME NEW index, IdsOK(index), index.statistics = ExpectedStatistics(index), NEW id
  PROVE  StatisticsWithout(index, id,
           SubtractStatistics(index.statistics, PreviousText(index, id)))
<1> DEFINE left == SubtractStatistics(index.statistics, PreviousText(index, id))
<1>0. left = SubtractStatistics(index.statistics, PreviousText(index, id))
  OBVIOUS
<1> HIDE DEF left
<1> SUFFICES ASSUME NEW f
             PROVE  /\ f \in DOMAIN left <=> LiveWith(index, f) \ {id} # {}
                    /\ f \in DOMAIN left =>
                         left[f] = StatisticOf(index, f, LiveWith(index, f) \ {id})
  BY DEF StatisticsWithout, left
<1> DEFINE V == LiveWith(index, f) \ {id}
           before == PreviousText(index, id)
           W == LiveWith(index, f)
           stats == index.statistics
           all == [g \in DOMAIN stats |->
                     IF g \in DOMAIN before
                     THEN [count |-> stats[g].count - 1,
                           total |-> stats[g].total - Len(before[g])]
                     ELSE stats[g]]
<1>1. left = [g \in {x \in DOMAIN all : x \in DOMAIN before => all[x].count # 0} |-> all[g]]
  BY <1>0 DEF SubtractStatistics, Restrict
<1>2. DOMAIN all = DOMAIN stats
  OBVIOUS
<1>3. /\ f \in DOMAIN stats <=> W # {}
      /\ f \in DOMAIN stats => stats[f] = StatisticOf(index, f, W)
  BY ExpectedIs
<1>4. f \in DOMAIN before <=> id \in W
  <2>1. DOMAIN NoText = {}
    BY DEF NoText
  <2>2. Known(index, id) => RecordOK(index, id)
    BY DEF Known, IdsOK
  <2> QED BY <2>1, <2>2 DEF PreviousText, Known, LiveWith, LiveIds, RecordOK
<1>5. id \in W => before[f] = index.documents[id].doc.text[f]
  BY DEF PreviousText, Known, LiveWith, LiveIds, IdsOK, RecordOK
<1>6. FieldSet(index, f, W) /\ FieldSet(index, f, V)
  BY LiveFieldSet
<1>7. f \in DOMAIN stats /\ f \in DOMAIN before =>
        all[f] = [count |-> stats[f].count - 1, total |-> stats[f].total - Len(before[f])]
  OBVIOUS
<1>8. f \in DOMAIN stats /\ f \notin DOMAIN before => all[f] = stats[f]
  OBVIOUS
<1>9. /\ f \in DOMAIN left <=> f \in DOMAIN stats /\ (f \in DOMAIN before => all[f].count # 0)
      /\ f \in DOMAIN left => left[f] = all[f]
  <2> HIDE DEF all
  <2> QED BY <1>1, <1>2
<1> HIDE DEF all, before, stats
<1>10. CASE id \in W
  <2> DEFINE n == Cardinality(W)
             l == Len(index.documents[id].doc.text[f])
             T == TotalOf(index, f, V)
  <2>1. n \in Nat /\ Cardinality(V) = n - 1 /\ (Cardinality(V) = 0 <=> V = {})
    <3> HIDE DEF W
    <3> QED BY <1>6, <1>10, FS_RemoveElement, FS_CardinalityType, FS_EmptySet DEF FieldSet, W
  <2>2. TotalOf(index, f, W) = l + T
    <3> HIDE DEF W
    <3> QED BY <1>6, <1>10, TotalStep DEF W
  <2>3. l \in Nat /\ T \in Nat
    <3>1. l \in Nat
      BY <1>6, <1>10 DEF FieldSet
    <3> QED BY <3>1, <1>6, TotalStep
  <2>4. f \in DOMAIN stats
    BY <1>3, <1>10
  <2>5. stats[f].count = n /\ stats[f].total = l + T
    BY <1>3, <2>2, <2>4 DEF StatisticOf
  <2>6. all[f] = [count |-> stats[f].count - 1, total |-> stats[f].total - l]
    BY <1>4, <1>5, <1>7, <1>10, <2>4
  <2> HIDE DEF l, T, n, W
  <2>7. stats[f].count - 1 = Cardinality(V) /\ stats[f].total - l = T
    BY <2>1, <2>3, <2>5
  <2>8. all[f] = StatisticOf(index, f, V) /\ all[f].count = Cardinality(V)
    BY <2>6, <2>7 DEF StatisticOf, T
  <2> QED BY <1>4, <1>9, <1>10, <2>1, <2>4, <2>8
<1>11. CASE id \notin W
  <2>1. V = W
    BY <1>11
  <2> HIDE DEF W
  <2> QED BY <2>1, <1>3, <1>4, <1>8, <1>9, <1>11
<1> QED BY <1>10, <1>11

\* Adding the new version gives the statistics of the index after the put.
LEMMA UpdatedStatistics ==
  ASSUME NEW index, IdsOK(index), index.statistics = ExpectedStatistics(index),
         NEW doc, IsDocument(doc), ~PutFails(index, doc)
  PROVE  Updated(index, doc).statistics = ExpectedStatistics(Updated(index, doc))
<1> DEFINE next == Updated(index, doc)
           id == doc.id
           left == SubtractStatistics(index.statistics, PreviousText(index, id))
           after == NewText(doc)
           S == next.statistics
           E == ExpectedStatistics(next)
<1>1. Replaced(index, doc, next) /\ IdsOK(next)
  BY UpdatedDocuments, UpdatedIds
<1>2. S = AddStatistics(left, after)
  BY DEF Updated, NewText
<1>a. StatisticsWithout(index, id, left)
  BY SubtractedStatistics
<1> HIDE DEF next, left, after
<1>3. ASSUME NEW f
      PROVE  /\ f \in DOMAIN S <=> f \in DOMAIN E
             /\ f \in DOMAIN S => S[f] = E[f]
  <2> DEFINE V == LiveWith(index, f) \ {id}
             W == LiveWith(next, f)
  <2>1. /\ f \in DOMAIN left <=> V # {}
        /\ f \in DOMAIN left => left[f] = StatisticOf(index, f, V)
    BY <1>a DEF StatisticsWithout
  <2>2. FieldSet(index, f, V) /\ FieldSet(next, f, W)
    <3>1. V \in SUBSET LiveWith(index, f) /\ W \in SUBSET LiveWith(next, f)
      OBVIOUS
    <3> HIDE DEF V, W
    <3> QED BY <1>1, <3>1, LiveFieldSet
  <2>3. StatisticAt(left, f) = StatisticOf(index, f, V)
    <3>1. CASE f \in DOMAIN left
      BY <3>1, <2>1 DEF StatisticAt
    <3>2. CASE f \notin DOMAIN left
      <4> HIDE DEF V
      <4>1. V = {}
        BY <3>2, <2>1
      <4>2. Cardinality(V) = 0 /\ TotalOf(index, f, V) = 0
        BY <4>1, <2>2, TotalStep, FS_EmptySet
      <4> QED BY <3>2, <4>2 DEF StatisticAt, StatisticOf
    <3> QED BY <3>1, <3>2
  <2>4. id \in W <=> f \in DOMAIN after
    <3>1. next.documents[id].doc = doc /\ id \in DOMAIN next.documents
      BY <1>1 DEF Replaced
    <3>2. DOMAIN NoText = {} /\ doc.deleted \in BOOLEAN
      BY DEF NoText, IsDocument
    <3> QED BY <3>1, <3>2 DEF LiveWith, LiveIds, after, NewText
  <2>5. W \ {id} = V
    BY <1>1 DEF Replaced, LiveWith, LiveIds
  <2>6. \A d \in V : next.documents[d] = index.documents[d]
    BY <1>1 DEF Replaced, LiveWith, LiveIds
  <2>7. TotalOf(next, f, V) = TotalOf(index, f, V)
    <3> HIDE DEF V
    <3> QED BY <2>2, <2>6, TotalSame
  <2>8. /\ f \in DOMAIN E <=> W # {}
        /\ f \in DOMAIN E => E[f] = StatisticOf(next, f, W)
    BY ExpectedIs
  <2> HIDE DEF V, W, E
  <2>9. CASE f \in DOMAIN after
    <3> DEFINE l == Len(after[f])
               n == Cardinality(V)
               T == TotalOf(index, f, V)
    <3>1. f \in DOMAIN S /\ S[f] = [count |-> StatisticAt(left, f).count + 1,
                                    total |-> StatisticAt(left, f).total + l]
      BY <1>2, <2>9 DEF AddStatistics
    <3>2. S[f] = [count |-> n + 1, total |-> T + l]
      BY <2>3, <3>1 DEF StatisticOf
    <3>3. id \in W
      BY <2>4, <2>9
    <3>4. after[f] = next.documents[id].doc.text[f]
      <4>1. next.documents[id].doc = doc
        BY <1>1 DEF Replaced
      <4>2. ~doc.deleted
        BY <2>9 DEF after, NewText, NoText
      <4> QED BY <4>1, <4>2 DEF after, NewText
    <3>5. l \in Nat /\ TotalOf(next, f, W) = l + T
      <4>1. TotalOf(next, f, W) =
              Len(next.documents[id].doc.text[f]) + TotalOf(next, f, W \ {id})
        BY <2>2, <3>3, TotalStep
      <4>2. Len(next.documents[id].doc.text[f]) \in Nat
        BY <2>2, <3>3 DEF FieldSet
      <4> QED BY <4>1, <4>2, <2>5, <2>7, <3>4
    <3>6. T \in Nat
      BY <2>2, TotalStep
    <3>7. Cardinality(W) = n + 1
      <4>1. n \in Nat /\ Cardinality(W) \in Nat
        BY <2>2, FS_CardinalityType DEF FieldSet
      <4>2. Cardinality(W \ {id}) = Cardinality(W) - 1
        BY <2>2, <3>3, FS_RemoveElement DEF FieldSet
      <4>3. n = Cardinality(W) - 1
        BY <4>2, <2>5, Zenon
      <4> QED BY <4>1, <4>3
    <3> HIDE DEF l, n, T
    <3>8. TotalOf(next, f, W) = T + l
      BY <3>5, <3>6
    <3>9. E[f] = [count |-> n + 1, total |-> T + l] /\ f \in DOMAIN E
      BY <2>8, <3>3, <3>7, <3>8 DEF StatisticOf
    <3> QED BY <3>1, <3>2, <3>9
  <2>10. CASE f \notin DOMAIN after
    <3>1. V = W
      BY <2>4, <2>5, <2>10
    <3>2. /\ f \in DOMAIN S <=> f \in DOMAIN left
          /\ f \in DOMAIN left => S[f] = left[f]
      BY <1>2, <2>10 DEF AddStatistics
    <3>3. StatisticOf(index, f, V) = StatisticOf(next, f, W)
      BY <2>7, <3>1 DEF StatisticOf
    <3> QED BY <2>1, <2>8, <3>1, <3>2, <3>3
  <2> QED BY <2>9, <2>10
<1>4. S = [f \in DOMAIN S |-> S[f]]
  BY <1>2 DEF AddStatistics
<1>5. E = [f \in DOMAIN E |-> E[f]]
  BY DEF ExpectedStatistics
<1> HIDE DEF S, E
<1>6. DOMAIN S = DOMAIN E
  BY <1>3
<1>7. S = E
  BY <1>3, <1>4, <1>5, <1>6
<1> QED BY <1>7 DEF S, E, next

-----------------------------------------------------------------------------
(* The index                                                               *)

IndexOK(index) ==
  /\ IdsOK(index)
  /\ Exact(index)
  /\ index.statistics = ExpectedStatistics(index)

\* The index that a cluster starts with.
LEMMA EmptyOK == IndexOK(EmptyIndex)
<1> DEFINE e == EmptyIndex
<1>1. /\ DOMAIN e.documents = {} /\ DOMAIN e.externalIds = {} /\ DOMAIN e.fields = {}
      /\ DOMAIN e.statistics = {} /\ e.nextId = 1
  BY DEF EmptyIndex
<1>2. e.statistics = [f \in {} |-> [count |-> 0, total |-> 0]]
  BY DEF EmptyIndex
<1> HIDE DEF e
<1>3. IsFiniteSet({}) /\ Cardinality({}) = 0 /\ 1..0 = {}
  BY FS_EmptySet
<1>4. MaxInternalId \in Nat /\ 1 = (0 + 1) % 2^IdWidth
  BY WidthAssumption
<1>5. IdsOK(e)
  <2>1. /\ DOMAIN e.externalIds = 1..0 /\ 0 <= MaxInternalId /\ e.nextId = (0 + 1) % 2^IdWidth
    BY <1>1, <1>3, <1>4
  <2> QED BY <1>1, <1>3, <2>1, Zenon DEF IdsOK
<1>6. \A key : ReferencePostings(e, key) = {}
  BY <1>1 DEF ReferencePostings, LiveIds
<1>7. Exact(e)
  BY <1>1, <1>6, ExactIs
<1>8. \A f : LiveWith(e, f) = {}
  BY <1>1 DEF LiveWith, LiveIds
<1>9. DOMAIN ExpectedStatistics(e) = {}
  BY <1>8, ExpectedIs
<1>10. ExpectedStatistics(e) =
         [f \in DOMAIN ExpectedStatistics(e) |-> ExpectedStatistics(e)[f]]
  BY DEF ExpectedStatistics
<1>11. e.statistics = ExpectedStatistics(e)
  BY <1>2, <1>9, <1>10
<1> QED BY <1>5, <1>7, <1>11 DEF IndexOK, e

\* put keeps the index right, whether it succeeds or not.
LEMMA AfterPutOK ==
  ASSUME NEW index, IndexOK(index), NEW doc, IsDocument(doc)
  PROVE  IndexOK(AfterPut(index, doc))
<1>1. CASE PutFails(index, doc)
  BY <1>1 DEF AfterPut
<1>2. CASE ~PutFails(index, doc)
  <2>1. AfterPut(index, doc) = Updated(index, doc)
    BY <1>2 DEF AfterPut
  <2>2. IndexOK(Updated(index, doc))
    BY <1>2, UpdatedIds, UpdatedExact, UpdatedStatistics DEF IndexOK
  <2> QED BY <2>1, <2>2
<1> QED BY <1>1, <1>2

\* A term of a text: a field that the text has, and a word that is not empty.
LEMMA TermIs ==
  ASSUME NEW doc, IsDocument(doc), NEW key \in TermsOf(doc.text)
  PROVE  key[1] \in DOMAIN doc.text /\ key[2] # ""
<1>1. PICK f \in DOMAIN doc.text : \E p \in DOMAIN doc.text[f] : key = <<f, doc.text[f][p]>>
  BY DEF TermsOf
<1>2. PICK p \in DOMAIN doc.text[f] : key = <<f, doc.text[f][p]>>
  BY <1>1
<1> DEFINE t == doc.text[f]
           A == STRING \ {""}
<1>3. t \in Seq(A)
  BY DEF IsDocument
<1>4. key[1] = f /\ key[2] = t[p] /\ p \in DOMAIN t
  BY <1>2
<1> HIDE DEF t, A
<1>5. t[p] \in A
  BY <1>3, <1>4
<1> QED BY <1>4, <1>5 DEF A

\* What validate_invariants asks of a posting list.
LEMMA ListsValid ==
  ASSUME NEW index, IndexOK(index), NEW key \in DOMAIN index.fields
  PROVE  EntryValid(index, key)
<1> DEFINE R == ReferencePostings(index, key)
           s == index.fields[key]
           n == Cardinality(R)
<1>1. Postings(R)
  BY ReferenceIsPostings DEF IndexOK
<1>2. s = ListOf(R)
  BY ExactIs DEF IndexOK
<1>3. Enumerates(DocOf(R), R, n, s) /\ n \in Nat
  BY <1>1, <1>2, ListOfIs
<1>4. s \in [1..n -> R] /\ \A i, j \in 1..n : i < j => s[i].doc < s[j].doc
  BY <1>1, <1>3, ListOfOrder
<1> HIDE DEF s, n
<1>5. \A p, q \in DOMAIN s : p < q => s[p].doc <= s[q].doc
  BY <1>1, <1>4 DEF Postings
<1>6. ASSUME NEW p \in DOMAIN s
      PROVE  /\ s[p].doc \in DOMAIN index.externalIds
             /\ Known(index, index.externalIds[s[p].doc])
             /\ ~RecordAt(index, s[p].doc).doc.deleted
             /\ key[1] \in DOMAIN RecordAt(index, s[p].doc).analyzed
             /\ key[2] # ""
  <2>1. s[p] \in R
    BY <1>4
  <2>2. PICK d \in Holders(index, key) : s[p] = Contribution(index, d, key)
    BY <2>1 DEF ReferencePostings, Contribution, Holders
  <2>3. s[p].doc = index.documents[d].internal
    BY <2>2 DEF Contribution, PostingOf
  <2>4. /\ d \in DOMAIN index.documents /\ ~index.documents[d].doc.deleted
        /\ key \in TermsOf(index.documents[d].doc.text)
    BY DEF Holders, LiveIds
  <2>5. RecordOK(index, d)
    BY <2>4 DEF IndexOK, IdsOK
  <2>6. /\ s[p].doc \in DOMAIN index.externalIds /\ index.externalIds[s[p].doc] = d
        /\ index.documents[d].analyzed = index.documents[d].doc.text
        /\ IsDocument(index.documents[d].doc)
    BY <2>3, <2>4, <2>5 DEF RecordOK
  <2>7. RecordAt(index, s[p].doc) = index.documents[d]
    BY <2>6 DEF RecordAt
  <2>8. key[1] \in DOMAIN index.documents[d].doc.text /\ key[2] # ""
    BY <2>4, <2>6, TermIs
  <2> QED BY <2>4, <2>6, <2>7, <2>8 DEF Known
<1> QED BY <1>5, <1>6 DEF EntryValid, s

\* And of a document.
LEMMA DocumentsValid ==
  ASSUME NEW index, IndexOK(index), NEW id \in DOMAIN index.documents
  PROVE  DocumentValid(index, id)
<1> DEFINE record == index.documents[id]
<1>1. RecordOK(index, id)
  BY DEF IndexOK, IdsOK
<1>2. /\ record.doc.id = id /\ record.internal \in DOMAIN index.externalIds
      /\ index.externalIds[record.internal] = id /\ IsDocument(record.doc)
      /\ record.analyzed = IF record.doc.deleted THEN NoText ELSE record.doc.text
  BY <1>1 DEF RecordOK
<1>3. ASSUME ~record.doc.deleted, NEW key \in TermsOf(record.analyzed)
      PROVE  /\ key \in DOMAIN index.fields
             /\ \E p \in DOMAIN index.fields[key] : index.fields[key][p].doc = record.internal
  <2> DEFINE R == ReferencePostings(index, key)
             c == Contribution(index, id, key)
  <2>1. id \in Holders(index, key)
    BY <1>2, <1>3 DEF Holders, LiveIds
  <2>2. c \in R /\ c.doc = record.internal
    BY <2>1 DEF ReferencePostings, Contribution, Holders, PostingOf
  <2>3. key \in DOMAIN index.fields /\ index.fields[key] = ListOf(R)
    BY <2>2, ExactIs DEF IndexOK
  <2>4. Postings(R)
    BY ReferenceIsPostings DEF IndexOK
  <2> HIDE DEF R, c
  <2>5. /\ ListOf(R) \in [1..Cardinality(R) -> R]
        /\ \A x \in R : \E i \in 1..Cardinality(R) : ListOf(R)[i] = x
    BY <2>4, ListOfIs DEF Enumerates
  <2>6. PICK i \in 1..Cardinality(R) : ListOf(R)[i] = c
    BY <2>2, <2>5
  <2>7. i \in DOMAIN index.fields[key] /\ index.fields[key][i] = c
    BY <2>3, <2>5, <2>6
  <2> QED BY <2>2, <2>3, <2>7
<1> QED BY <1>2, <1>3 DEF DocumentValid

\* validate_invariants accepts the index.
LEMMA IndexValid ==
  ASSUME NEW index, IndexOK(index)
  PROVE  /\ ValidateInvariants(index)
         /\ DOMAIN index.externalIds \subseteq 1..MaxInternalId
<1> DEFINE n == Cardinality(DOMAIN index.documents)
<1>1. n \in Nat /\ n <= MaxInternalId /\ DOMAIN index.externalIds = 1..n /\ MaxInternalId \in Nat
  BY CounterIs, WidthAssumption DEF IndexOK, IdsOK
<1> HIDE DEF n
<1>2. Cardinality(DOMAIN index.externalIds) = n
  BY <1>1, FS_Interval
<1>3. DOMAIN index.externalIds \subseteq 1..MaxInternalId
  BY <1>1
<1> QED BY <1>2, <1>3, ListsValid, DocumentsValid DEF ValidateInvariants, IndexOK, n

-----------------------------------------------------------------------------
(* The cluster                                                             *)

Numbers == 0..(ShardCount - 1)

\* The documents of a shard are those of the oracle that route to it.
PartitionOK ==
  /\ DOMAIN oracle.documents \subseteq DOMAIN Hash
  /\ \A shard \in Numbers :
       DOMAIN shards[shard].documents = {id \in DOMAIN oracle.documents : Route(id) = shard}
  /\ \A id \in DOMAIN oracle.documents :
       shards[Route(id)].documents[id].doc = oracle.documents[id].doc

StoreInv ==
  /\ shards = [shard \in Numbers |-> shards[shard]]
  /\ IndexOK(oracle)
  /\ \A shard \in Numbers : IndexOK(shards[shard])
  /\ PartitionOK

\* An ID is routed to a shard that there is.
LEMMA RouteIs ==
  ASSUME NEW id \in DOMAIN Hash
  PROVE  Route(id) \in Numbers
<1>1. Hash[id] \in Nat
  BY RequestAssumption, Zenon
<1>2. ShardCount \in Nat /\ ShardCount > 0
  BY ShardAssumption
<1> QED BY <1>1, <1>2 DEF Route, Numbers

\* What clients put and erase are documents with a hash.
LEMMA RequestsAre ==
  /\ \A doc \in Requests : IsDocument(doc) /\ doc.id \in DOMAIN Hash
  /\ \A e \in Erasures : /\ IsDocument(Tombstone(e.id, e.version))
                         /\ Tombstone(e.id, e.version).id \in DOMAIN Hash
<1>1. \A doc \in Requests : IsDocument(doc) /\ doc.id \in DOMAIN Hash
  BY RequestAssumption DEF IsDocument
<1>2. ASSUME NEW e \in Erasures
      PROVE  /\ IsDocument(Tombstone(e.id, e.version))
             /\ Tombstone(e.id, e.version).id \in DOMAIN Hash
  <2> DEFINE t == Tombstone(e.id, e.version)
  <2>1. t.id = e.id /\ t.version = e.version /\ t.deleted = TRUE /\ t.text = NoText
    BY DEF Tombstone
  <2>2. DOMAIN NoText = {}
    BY DEF NoText
  <2>3. e.id \in DOMAIN Hash /\ e.version \in Nat
    BY RequestAssumption
  <2> HIDE DEF t
  <2>4. IsDocument(t) /\ t.id \in DOMAIN Hash
    BY <2>1, <2>2, <2>3 DEF IsDocument
  <2> QED BY <2>4 DEF t
<1> QED BY <1>1, <1>2

\* The shard knows a document when the oracle does, in the same version.
LEMMA ShardKnows ==
  ASSUME PartitionOK, NEW id \in DOMAIN Hash
  PROVE  /\ Known(shards[Route(id)], id) <=> Known(oracle, id)
         /\ Known(oracle, id) =>
              shards[Route(id)].documents[id].doc = oracle.documents[id].doc
<1>1. Route(id) \in Numbers
  BY RouteIs
<1> QED BY <1>1 DEF PartitionOK, Known

\* A shard accepts what the oracle accepts: it has given out no more internal
\* IDs than the oracle, whose counter is the same function of their number.
LEMMA ShardAccepts ==
  ASSUME StoreInv, NEW doc, doc.id \in DOMAIN Hash, ~PutFails(oracle, doc)
  PROVE  ~PutFails(shards[Route(doc.id)], doc)
<1> DEFINE shard == shards[Route(doc.id)]
           D == DOMAIN oracle.documents
           S == DOMAIN shard.documents
<1>1. Route(doc.id) \in Numbers
  BY RouteIs
<1>2. IndexOK(oracle) /\ IndexOK(shard) /\ PartitionOK
  BY <1>1 DEF StoreInv
<1>3. /\ Known(shard, doc.id) <=> Known(oracle, doc.id)
      /\ Known(oracle, doc.id) =>
           shard.documents[doc.id].doc = oracle.documents[doc.id].doc
  BY <1>2, ShardKnows
<1>4. S \in SUBSET D
  BY <1>1, <1>2 DEF PartitionOK
<1>5. /\ Cardinality(S) \in Nat /\ Cardinality(D) \in Nat
      /\ Exhausted(shard) <=> Cardinality(S) = MaxInternalId
      /\ Exhausted(oracle) <=> Cardinality(D) = MaxInternalId
  BY <1>2, CounterIs DEF IndexOK
<1>6. Cardinality(S) <= Cardinality(D)
  <2>1. IsFiniteSet(D)
    BY <1>2 DEF IndexOK, IdsOK
  <2> HIDE DEF S, D
  <2> QED BY <2>1, <1>4, FS_Subset
<1>7. Cardinality(D) <= MaxInternalId /\ MaxInternalId \in Nat
  BY <1>2, WidthAssumption DEF IndexOK, IdsOK
<1>8. Exhausted(shard) => Exhausted(oracle)
  BY <1>5, <1>6, <1>7
<1> HIDE DEF shard
<1>9. Stale(shard, doc.id, doc.version) <=> Stale(oracle, doc.id, doc.version)
  BY <1>3 DEF Stale
<1>10. ~PutFails(shard, doc)
  BY <1>3, <1>8, <1>9 DEF PutFails
<1> QED BY <1>10 DEF shard

\* A put that is accepted changes both sides of the partition alike.
LEMMA PutKeepsPartition ==
  ASSUME StoreInv, NEW doc, IsDocument(doc), doc.id \in DOMAIN Hash, PutDocument(doc)
  PROVE  StoreInv'
<1> DEFINE r == Route(doc.id)
<1>1. r \in Numbers
  BY RouteIs
<1>2. ~PutFails(oracle, doc) /\ ~PutFails(shards[r], doc)
  BY ShardAccepts DEF PutDocument
<1>3. /\ shards = [shard \in Numbers |-> shards[shard]] /\ IndexOK(oracle)
      /\ \A shard \in Numbers : IndexOK(shards[shard])
      /\ PartitionOK
  BY DEF StoreInv
<1>4. oracle' = Updated(oracle, doc) /\ oracle' = AfterPut(oracle, doc)
  BY <1>2 DEF PutDocument, AfterPut
<1>5. /\ shards' = [shard \in Numbers |-> shards'[shard]]
      /\ shards'[r] = Updated(shards[r], doc) /\ shards'[r] = AfterPut(shards[r], doc)
      /\ \A shard \in Numbers : shard # r => shards'[shard] = shards[shard]
  <2>1. AfterPut(shards[r], doc) = Updated(shards[r], doc)
    BY <1>2 DEF AfterPut
  <2>2. shards' = [shards EXCEPT ![r] = AfterPut(shards[r], doc)]
    BY DEF PutDocument
  <2>3. /\ shards' = [shard \in Numbers |-> shards'[shard]]
        /\ shards'[r] = AfterPut(shards[r], doc)
        /\ \A shard \in Numbers : shard # r => shards'[shard] = shards[shard]
    BY <1>1, <1>3, <2>2
  <2> QED BY <2>1, <2>3
<1>6. IndexOK(oracle')
  BY <1>3, <1>4, AfterPutOK
<1>7. \A shard \in Numbers : IndexOK(shards'[shard])
  BY <1>1, <1>3, <1>5, AfterPutOK
<1>8. Replaced(oracle, doc, oracle') /\ Replaced(shards[r], doc, shards'[r])
  BY <1>4, <1>5, UpdatedDocuments
<1>9. /\ DOMAIN oracle'.documents = DOMAIN oracle.documents \cup {doc.id}
      /\ DOMAIN shards'[r].documents = DOMAIN shards[r].documents \cup {doc.id}
      /\ oracle'.documents[doc.id].doc = doc /\ shards'[r].documents[doc.id].doc = doc
      /\ \A id \in DOMAIN oracle.documents :
           id # doc.id => oracle'.documents[id] = oracle.documents[id]
      /\ \A id \in DOMAIN shards[r].documents :
           id # doc.id => shards'[r].documents[id] = shards[r].documents[id]
  BY <1>8 DEF Replaced
<1>10. DOMAIN oracle'.documents \subseteq DOMAIN Hash
  BY <1>3, <1>9 DEF PartitionOK
<1>11. ASSUME NEW shard \in Numbers
       PROVE  DOMAIN shards'[shard].documents =
                {id \in DOMAIN oracle'.documents : Route(id) = shard}
  <2>1. DOMAIN shards[shard].documents = {id \in DOMAIN oracle.documents : Route(id) = shard}
    BY <1>3 DEF PartitionOK
  <2>2. CASE shard = r
    BY <2>1, <2>2, <1>9
  <2>3. CASE shard # r
    BY <2>1, <2>3, <1>5, <1>9
  <2> QED BY <2>2, <2>3
<1>12. ASSUME NEW id \in DOMAIN oracle'.documents
       PROVE  shards'[Route(id)].documents[id].doc = oracle'.documents[id].doc
  <2>1. CASE id = doc.id
    BY <2>1, <1>9
  <2>2. CASE id # doc.id
    <3>1. id \in DOMAIN oracle.documents /\ id \in DOMAIN Hash
      BY <2>2, <1>3, <1>9 DEF PartitionOK
    <3>2. Route(id) \in Numbers
      BY <3>1, RouteIs
    <3>3. shards[Route(id)].documents[id].doc = oracle.documents[id].doc
      BY <3>1, <1>3 DEF PartitionOK
    <3>4. id \in DOMAIN shards[Route(id)].documents
      BY <3>1, <3>2, <1>3 DEF PartitionOK
    <3>5. shards'[Route(id)].documents[id] = shards[Route(id)].documents[id]
      BY <2>2, <3>2, <3>4, <1>5, <1>9
    <3> QED BY <2>2, <3>1, <3>3, <3>5, <1>9
  <2> QED BY <2>1, <2>2
<1>13. PartitionOK'
  BY <1>10, <1>11, <1>12 DEF PartitionOK, Route, Numbers
<1> QED BY <1>5, <1>6, <1>7, <1>13 DEF StoreInv, Numbers

\* The indexes are right, and partitioned, in every state: StoreInv is
\* inductive.
THEOREM StoreInvariant == StoreSpec => []StoreInv
<1>1. StoreInit => StoreInv
  <2> SUFFICES ASSUME StoreInit PROVE StoreInv
    OBVIOUS
  <2>1. /\ oracle = EmptyIndex /\ shards = [shard \in Numbers |-> EmptyIndex]
    BY DEF StoreInit, Numbers
  <2>2. \A shard \in Numbers : shards[shard] = EmptyIndex
    BY <2>1
  <2>3. DOMAIN EmptyIndex.documents = {}
    BY DEF EmptyIndex
  <2>4. PartitionOK
    BY <2>1, <2>2, <2>3 DEF PartitionOK
  <2> QED BY <2>1, <2>2, <2>4, EmptyOK DEF StoreInv
<1>2. StoreInv /\ [StoreNext]_stored => StoreInv'
  <2> SUFFICES ASSUME StoreInv, [StoreNext]_stored PROVE StoreInv'
    OBVIOUS
  <2>1. ASSUME NEW doc \in Requests, PutDocument(doc) PROVE StoreInv'
    BY <2>1, RequestsAre, PutKeepsPartition
  <2>2. ASSUME NEW e \in Erasures, EraseDocument(e.id, e.version) PROVE StoreInv'
    BY <2>2, RequestsAre, PutKeepsPartition DEF EraseDocument
  <2>3. CASE UNCHANGED stored
    BY <2>3 DEF stored, StoreInv, PartitionOK, Route, Numbers
  <2> QED BY <2>1, <2>2, <2>3 DEF StoreNext
<1> QED BY <1>1, <1>2, PTL DEF StoreSpec

\* Every index, of the whole and of a shard, is the one that its live
\* documents give: no posting of an earlier version is left by put, no list
\* out of order, no statistic that does not add up; validate_invariants never
\* fails.
THEOREM IndexesExact == StoreSpec => []IndexExact
<1>1. StoreInv => IndexExact
  <2> SUFFICES ASSUME StoreInv, NEW index \in {oracle} \cup Range(shards)
               PROVE  IndexOK(index)
    BY IndexValid DEF IndexExact, IndexOK
  <2>1. CASE index = oracle
    BY <2>1 DEF StoreInv
  <2>2. CASE index \in Range(shards)
    <3>1. DOMAIN shards = Numbers
      BY DEF StoreInv
    <3>2. PICK shard \in DOMAIN shards : index = shards[shard]
      BY <2>2 DEF Range
    <3> QED BY <3>1, <3>2 DEF StoreInv
  <2> QED BY <2>1, <2>2
<1> QED BY <1>1, StoreInvariant, PTL

\* The shards are a partition of the oracle and no put that the oracle
\* accepts fails at its shard, also when the internal IDs run out.
THEOREM ShardsArePartition == StoreSpec => []ShardsPartition
<1>1. StoreInv => ShardsPartition
  <2> SUFFICES ASSUME StoreInv PROVE ShardsPartition
    OBVIOUS
  <2>1. DOMAIN shards = Numbers
    BY DEF StoreInv
  <2>2. \A shard \in DOMAIN shards :
          DOMAIN shards[shard].documents = {id \in DOMAIN oracle.documents : Route(id) = shard}
    BY <2>1 DEF StoreInv, PartitionOK
  <2>3. \A id \in DOMAIN oracle.documents :
          shards[Route(id)].documents[id].doc = oracle.documents[id].doc
    BY DEF StoreInv, PartitionOK
  <2>4. \A doc \in Requests : ~PutFails(oracle, doc) => ~PutFails(shards[Route(doc.id)], doc)
    BY RequestsAre, ShardAccepts
  <2> QED BY <2>2, <2>3, <2>4 DEF ShardsPartition
<1> QED BY <1>1, StoreInvariant, PTL

-----------------------------------------------------------------------------
(* The order of hits                                                       *)

Hit == [id : {Alphabet[i] : i \in DOMAIN Alphabet}, score : Int]

\* The public order of results is a strict total order.
LEMMA BetterOrder ==
  /\ \A s \in Hit : ~Better(s, s)
  /\ \A s, t, u \in Hit : Better(s, t) /\ Better(t, u) => Better(s, u)
  /\ \A s, t \in Hit : s # t => Better(s, t) \/ Better(t, s)
<1>1. ASSUME NEW s \in Hit
      PROVE  s.score \in Int /\ RankOf(s.id) \in Int /\ Alphabet[RankOf(s.id)] = s.id
  <2>1. s.score \in Int /\ \E i \in DOMAIN Alphabet : Alphabet[i] = s.id
    BY DEF Hit
  <2>2. RankOf(s.id) \in DOMAIN Alphabet /\ Alphabet[RankOf(s.id)] = s.id
    BY <2>1 DEF RankOf
  <2>3. DOMAIN Alphabet \in SUBSET Int
    BY AlphabetAssumption
  <2> QED BY <2>1, <2>2, <2>3
<1>2. ASSUME NEW s \in Hit, NEW t \in Hit, s.score = t.score, RankOf(s.id) = RankOf(t.id)
      PROVE  s = t
  <2>1. s.id = t.id
    BY <1>1, <1>2
  <2> QED BY <2>1, <1>2 DEF Hit
<1>3. \A s \in Hit : ~Better(s, s)
  BY <1>1 DEF Better
<1>4. \A s, t, u \in Hit : Better(s, t) /\ Better(t, u) => Better(s, u)
  BY <1>1 DEF Better
<1>5. \A s, t \in Hit : s # t => Better(s, t) \/ Better(t, s)
  BY <1>1, <1>2 DEF Better
<1> QED BY <1>3, <1>4, <1>5

\* The place of each hit of a set: how many are better.
Place(H) == [h \in H |-> Cardinality({t \in H : Better(t, h)})]

LEMMA PlaceOrder ==
  ASSUME NEW H \in SUBSET Hit, IsFiniteSet(H)
  PROVE  /\ DOMAIN Place(H) = H
         /\ \A h \in H : Place(H)[h] \in Nat
         /\ \A s, t \in H : Better(s, t) => Place(H)[s] < Place(H)[t]
         /\ \A s, t \in H : Place(H)[s] < Place(H)[t] => Better(s, t)
         /\ \A s, t \in H : Place(H)[s] = Place(H)[t] => s = t
<1> DEFINE above(h) == {t \in H : Better(t, h)}
           p == Place(H)
<1>1. DOMAIN p = H /\ \A h \in H : p[h] = Cardinality(above(h))
  BY DEF Place
<1>2. \A h \in H : above(h) \in SUBSET H
  OBVIOUS
<1>3. \A h \in H : IsFiniteSet(above(h)) /\ Cardinality(above(h)) \in Nat
  <2> TAKE h \in H
  <2>1. above(h) \in SUBSET H
    BY <1>2
  <2> HIDE DEF above
  <2> QED BY <2>1, FS_Subset, FS_CardinalityType
<1>4. ASSUME NEW s \in H, NEW t \in H, Better(s, t) PROVE p[s] < p[t]
  <2>1. s \in above(t) /\ above(s) \in SUBSET (above(t) \ {s})
    BY <1>4, BetterOrder
  <2> DEFINE A == above(s)
             B == above(t)
             C == B \ {s}
  <2>2. IsFiniteSet(B) /\ Cardinality(B) \in Nat /\ Cardinality(A) \in Nat
    BY <1>3
  <2>3. s \in B /\ A \in SUBSET C
    BY <2>1
  <2> HIDE DEF A, B
  <2>4. IsFiniteSet(C) /\ Cardinality(C) = Cardinality(B) - 1
    BY <2>2, <2>3, FS_RemoveElement
  <2> HIDE DEF C
  <2>5. Cardinality(A) <= Cardinality(C)
    BY <2>3, <2>4, FS_Subset
  <2>6. Cardinality(A) < Cardinality(B)
    BY <2>2, <2>4, <2>5
  <2> QED BY <2>6, <1>1 DEF A, B
<1> HIDE DEF above, p
<1>5. \A h \in H : p[h] \in Nat
  BY <1>1, <1>3
<1>6. ASSUME NEW s \in H, NEW t \in H, p[s] < p[t] PROVE Better(s, t)
  <2>1. s # t
    BY <1>5, <1>6
  <2>2. ~Better(t, s)
    BY <1>4, <1>5, <1>6
  <2> QED BY <2>1, <2>2, BetterOrder
<1>7. ASSUME NEW s \in H, NEW t \in H, p[s] = p[t] PROVE s = t
  <2>1. ~Better(s, t) /\ ~Better(t, s)
    BY <1>4, <1>5, <1>7
  <2> QED BY <2>1, BetterOrder
<1> QED BY <1>1, <1>4, <1>5, <1>6, <1>7 DEF p

\* The top of a heap that is not empty.
LEMMA WorstIs ==
  ASSUME NEW H \in SUBSET Hit, IsFiniteSet(H), H # {}
  PROVE  Worst(H) \in H /\ \A t \in H \ {Worst(H)} : Better(t, Worst(H))
<1> DEFINE p == Place(H)
           K == {p[h] : h \in H}
<1>1. /\ \A h \in H : p[h] \in Nat
      /\ \A s, t \in H : p[s] < p[t] => Better(s, t)
      /\ \A s, t \in H : p[s] = p[t] => s = t
  BY PlaceOrder
<1> HIDE DEF p
<1>2. K \in SUBSET Nat /\ K # {}
  BY <1>1
<1>3. IsFiniteSet(K)
  <2> DEFINE f == [h \in H |-> p[h]]
  <2>1. f \in Surjection(H, K)
    BY DEF Surjection
  <2> HIDE DEF f, K
  <2> QED BY <2>1, FS_Surjection
<1>4. PICK k \in K : \A y \in K : y <= k
  <2> HIDE DEF K
  <2> QED BY <1>2, <1>3, FiniteMax
<1>5. PICK w \in H : k = p[w]
  OBVIOUS
<1>6. \A t \in H : p[t] <= p[w]
  BY <1>4, <1>5
<1>7. \A t \in H \ {w} : Better(t, w)
  <2> TAKE t \in H \ {w}
  <2>1. p[t] # p[w]
    BY <1>1
  <2>2. p[t] < p[w]
    BY <2>1, <1>1, <1>6
  <2> QED BY <2>2, <1>1
<1>8. \E s \in H : \A t \in H \ {s} : Better(t, s)
  BY <1>7
<1> QED BY <1>8 DEF Worst

\* A list without repetition, and the hits in it.
Listing(list) ==
  /\ list \in Seq(Hit)
  /\ \A i, j \in DOMAIN list : list[i] = list[j] => i = j
HitsOf(list) == {list[i] : i \in DOMAIN list}

\* results() lists the heap, the better hits first.
LEMMA ResultsIs ==
  ASSUME NEW H \in SUBSET Hit, IsFiniteSet(H)
  PROVE  /\ Listing(Results(H))
         /\ HitsOf(Results(H)) = H
         /\ Len(Results(H)) = Cardinality(H)
         /\ \A i, j \in DOMAIN Results(H) : i < j => Better(Results(H)[i], Results(H)[j])
<1> DEFINE p == Place(H)
           n == Cardinality(H)
           o == Ascending(p)
           r == Results(H)
           P(s) == \A i, j \in DOMAIN s : i < j => Better(s[i], s[j])
<1>1. /\ DOMAIN p = H
      /\ \A h \in H : p[h] \in Nat
      /\ \A s, t \in H : p[s] < p[t] => Better(s, t)
      /\ \A s, t \in H : p[s] = p[t] => s = t
  BY PlaceOrder
<1> HIDE DEF p
<1>2. Enumerates(p, H, n, o) /\ n \in Nat
  <2>1. /\ Enumerates(p, DOMAIN p, Cardinality(DOMAIN p), Ascending(p))
        /\ Cardinality(DOMAIN p) \in Nat
    BY <1>1, AscendingEnumerates
  <2> QED BY <2>1, <1>1
<1>3. o \in [1..n -> H] /\ \A i, j \in 1..n : i < j => p[o[i]] < p[o[j]]
  BY <1>2 DEF Enumerates
<1> HIDE DEF o, n
<1>4. P(o)
  BY <1>1, <1>3
<1>5. \E s \in [1..n -> H] : P(s)
  BY <1>3, <1>4
<1>6. r = CHOOSE s \in [1..n -> H] : P(s)
  BY DEF Results, n
<1>7. r \in [1..n -> H] /\ P(r)
  <2> HIDE DEF P, r
  <2> QED BY <1>5, <1>6
<1> HIDE DEF r
<1>8. DOMAIN r = 1..n /\ \A i, j \in 1..n : i < j => Better(r[i], r[j])
  BY <1>7
<1>9. \A i, j \in 1..n : r[i] = r[j] => i = j
  <2> SUFFICES ASSUME NEW i \in 1..n, NEW j \in 1..n, r[i] = r[j] PROVE i = j
    OBVIOUS
  <2>1. r[i] \in Hit /\ r[j] \in Hit
    BY <1>7
  <2>2. ~(i < j) /\ ~(j < i)
    BY <2>1, <1>8, BetterOrder
  <2> QED BY <2>2, <1>2
<1>10. r \in Seq(Hit) /\ Len(r) = n
  <2>1. r \in [1..n -> Hit]
    BY <1>7
  <2> QED BY <2>1, <1>2
<1>11. HitsOf(r) = H
  <2>1. IsFiniteSet(1..n) /\ Cardinality(1..n) = n
    BY <1>2, FS_Interval
  <2>2. r \in Injection(1..n, H)
    BY <1>7, <1>9 DEF Injection, IsInjective
  <2>3. r \in Surjection(1..n, H)
    BY <2>1, <2>2, FS_Injection DEF n
  <2> QED BY <2>3, <1>7, <1>8 DEF Surjection, HitsOf
<1> QED BY <1>8, <1>9, <1>10, <1>11 DEF Listing, r, n

-----------------------------------------------------------------------------
(* The k best                                                              *)

Smaller(m, n) == IF m < n THEN m ELSE n

\* H has the k best hits of S, or all if they are fewer.
IsBest(H, S, k) ==
  /\ H \in SUBSET S
  /\ Cardinality(H) = Smaller(Cardinality(S), k)
  /\ \A b \in H : \A s \in S \ H : Better(b, s)

\* Finite sets of hits.
Hits(S) == S \in SUBSET Hit /\ IsFiniteSet(S)

\* A part of a finite set has as many elements only when it is all of it.
LEMMA PartIs ==
  ASSUME NEW S, IsFiniteSet(S), NEW H \in SUBSET S
  PROVE  /\ IsFiniteSet(H) /\ Cardinality(H) \in Nat /\ Cardinality(S) \in Nat
         /\ Cardinality(H) <= Cardinality(S)
         /\ Cardinality(H) = Cardinality(S) => H = S
  BY FS_Subset, FS_CardinalityType

\* There is one set of the k best.
LEMMA OneBest ==
  ASSUME NEW S, Hits(S), NEW k \in Nat, NEW H, IsBest(H, S, k), NEW G, IsBest(G, S, k)
  PROVE  H = G
<1>1. /\ H \in SUBSET S /\ G \in SUBSET S /\ Cardinality(H) = Cardinality(G)
      /\ \A b \in H : \A s \in S \ H : Better(b, s)
      /\ \A b \in G : \A s \in S \ G : Better(b, s)
  BY DEF IsBest
<1>2. IsFiniteSet(S) /\ S \in SUBSET Hit
  BY DEF Hits
<1>3. IsFiniteSet(H) /\ IsFiniteSet(G)
  BY <1>1, <1>2, PartIs
<1>4. CASE H \in SUBSET G
  BY <1>1, <1>3, <1>4, PartIs
<1>5. CASE G \in SUBSET H
  BY <1>1, <1>3, <1>5, PartIs
<1>6. CASE ~(H \in SUBSET G) /\ ~(G \in SUBSET H)
  <2>1. PICK x \in H : x \notin G
    BY <1>6
  <2>2. PICK y \in G : y \notin H
    BY <1>6
  <2>3. Better(x, y) /\ Better(y, x) /\ x \in Hit /\ y \in Hit
    BY <2>1, <2>2, <1>1, <1>2
  <2> QED BY <2>3, BetterOrder
<1> QED BY <1>4, <1>5, <1>6

\* collect(): one candidate more.
LEMMA CollectBest ==
  ASSUME NEW S, Hits(S), NEW k \in Nat, NEW H, IsBest(H, S, k), NEW c \in Hit, c \notin S
  PROVE  /\ IsBest(Collect(H, c, k), S \cup {c}, k)
         /\ Hits(S \cup {c})
<1> DEFINE T == S \cup {c}
           n == Cardinality(S)
           G == Collect(H, c, k)
           w == Worst(H)
<1>1. /\ H \in SUBSET S /\ Cardinality(H) = Smaller(n, k)
      /\ \A b \in H : \A s \in S \ H : Better(b, s)
  BY DEF IsBest
<1>2. IsFiniteSet(S) /\ S \in SUBSET Hit
  BY DEF Hits
<1>3. IsFiniteSet(H) /\ n \in Nat /\ Cardinality(H) \in Nat /\ (Cardinality(H) = n => H = S)
  BY <1>1, <1>2, PartIs
<1>4. Cardinality(T) = n + 1 /\ IsFiniteSet(T)
  BY <1>2, FS_AddElement
<1>5. H \in SUBSET Hit /\ T \in SUBSET Hit /\ c \notin H
  BY <1>1, <1>2
<1>6. Hits(T)
  BY <1>4, <1>5 DEF Hits
<1> HIDE DEF n
<1>7. CASE k = 0
  <2>1. Cardinality(H) = 0
    BY <1>1, <1>3, <1>7 DEF Smaller
  <2>2. H = {}
    BY <2>1, <1>3, FS_EmptySet
  <2>3. G = {}
    BY <2>2, <1>7 DEF Collect
  <2>4. Smaller(Cardinality(T), k) = 0
    BY <1>3, <1>4, <1>7 DEF Smaller
  <2> QED BY <2>1, <2>2, <2>3, <2>4, <1>6 DEF IsBest
<1>8. CASE k # 0 /\ Cardinality(H) < k
  <2>1. Cardinality(H) = n /\ n < k
    BY <1>1, <1>3, <1>8 DEF Smaller
  <2>2. H = S
    BY <2>1, <1>3
  <2>3. G = T
    BY <2>2, <1>8 DEF Collect
  <2>4. Smaller(Cardinality(T), k) = Cardinality(T)
    BY <2>1, <1>3, <1>4 DEF Smaller
  <2> QED BY <2>3, <2>4, <1>6 DEF IsBest
<1>9. CASE k # 0 /\ ~(Cardinality(H) < k)
  <2>1. Cardinality(H) = k /\ k <= n
    BY <1>1, <1>3, <1>9 DEF Smaller
  <2>2. Smaller(Cardinality(T), k) = k
    BY <2>1, <1>3, <1>4 DEF Smaller
  <2>3. H # {}
    BY <2>1, <1>9, FS_EmptySet
  <2>4. w \in H /\ \A t \in H \ {w} : Better(t, w)
    BY <2>3, <1>3, <1>5, WorstIs
  <2> HIDE DEF w
  <2>5. CASE Better(c, w)
    <3>1. G = (H \ {w}) \cup {c}
      BY <2>5, <1>9 DEF Collect, w
    <3> HIDE DEF G
    <3>2. Cardinality(G) = k
      <4> DEFINE A == H \ {w}
      <4>1. IsFiniteSet(A) /\ Cardinality(A) = k - 1 /\ c \notin A
        BY <2>1, <2>4, <1>3, <1>5, FS_RemoveElement
      <4> HIDE DEF A
      <4>2. Cardinality(A \cup {c}) = Cardinality(A) + 1
        BY <4>1, FS_AddElement
      <4>3. Cardinality(A \cup {c}) = k
        BY <4>1, <4>2
      <4> QED BY <4>3, <3>1 DEF A
    <3>3. G \in SUBSET T
      BY <3>1, <1>1
    <3>4. ASSUME NEW b \in G, NEW s \in T \ G PROVE Better(b, s)
      <4>1. b \in Hit /\ s \in Hit /\ w \in Hit
        BY <3>3, <2>4, <1>5
      <4>2. b = c \/ b \in H \ {w}
        BY <3>1
      <4>3. Better(b, w)
        BY <4>2, <2>4, <2>5
      <4>4. s = w \/ s \in S \ H
        BY <3>1
      <4>5. s = w \/ Better(w, s)
        BY <4>4, <2>4, <1>1
      <4> QED BY <4>1, <4>3, <4>5, BetterOrder
    <3> HIDE DEF T
    <3>5. IsBest(G, T, k)
      BY <3>2, <3>3, <3>4, <2>2 DEF IsBest
    <3> QED BY <3>5, <1>6 DEF G, T
  <2>6. CASE ~Better(c, w)
    <3>1. G = H
      BY <2>6, <1>9 DEF Collect, w
    <3> HIDE DEF G
    <3>2. w \in Hit /\ c # w
      BY <2>4, <1>5
    <3>3. Better(w, c)
      BY <3>2, <2>6, BetterOrder
    <3>4. ASSUME NEW b \in H, NEW s \in T \ H PROVE Better(b, s)
      <4>1. b \in Hit
        BY <1>5
      <4>2. CASE s = c
        BY <4>1, <4>2, <3>2, <3>3, <2>4, BetterOrder
      <4>3. CASE s # c
        BY <4>3, <1>1
      <4> QED BY <4>2, <4>3
    <3>5. H \in SUBSET T
      BY <1>1
    <3> HIDE DEF T
    <3>6. IsBest(H, T, k)
      BY <3>4, <3>5, <2>1, <2>2 DEF IsBest
    <3> QED BY <3>1, <3>6, <1>6 DEF G, T
  <2> QED BY <2>5, <2>6
<1> QED BY <1>6, <1>7, <1>8, <1>9

\* All that the sets of a family have.
Together(sets, N) == UNION {sets[n] : n \in N}

\* The k best of what is the k best of each part are the k best of all.
LEMMA PartsBest ==
  ASSUME NEW N, NEW parts, NEW tops, NEW k \in Nat, Hits(Together(parts, N)),
         \A n \in N : IsBest(tops[n], parts[n], k),
         NEW M, IsBest(M, Together(tops, N), k)
  PROVE  IsBest(M, Together(parts, N), k)
<1> DEFINE U == Together(tops, N)
           S == Together(parts, N)
<1>0. U = UNION {tops[n] : n \in N} /\ S = UNION {parts[n] : n \in N}
  BY DEF Together
<1>1. IsFiniteSet(S) /\ S \in SUBSET Hit /\ Cardinality(S) \in Nat
  BY FS_CardinalityType DEF Hits
<1>2. /\ M \in SUBSET U /\ Cardinality(M) = Smaller(Cardinality(U), k)
      /\ \A b \in M : \A s \in U \ M : Better(b, s)
  BY DEF IsBest
<1>3. \A n \in N : /\ parts[n] \in SUBSET S
                   /\ tops[n] \in SUBSET parts[n] /\ tops[n] \in SUBSET U
                   /\ Cardinality(tops[n]) = Smaller(Cardinality(parts[n]), k)
                   /\ \A b \in tops[n] : \A s \in parts[n] \ tops[n] : Better(b, s)
  BY <1>0 DEF IsBest
<1>4. \A x \in U : \E n \in N : x \in tops[n]
  BY <1>0
<1>5. \A x \in S : \E n \in N : x \in parts[n]
  BY <1>0
<1>6. U \in SUBSET S
  BY <1>3, <1>4
<1> HIDE DEF U, S
<1>7. IsFiniteSet(U) /\ Cardinality(U) \in Nat /\ Cardinality(U) <= Cardinality(S)
  BY <1>1, <1>6, PartIs
<1>8. M \in SUBSET S /\ IsFiniteSet(M) /\ Cardinality(M) \in Nat
  BY <1>2, <1>6, <1>7, PartIs
<1>9. ASSUME NEW n \in N, tops[n] # parts[n]
      PROVE  IsFiniteSet(tops[n]) /\ Cardinality(tops[n]) = k /\ k <= Cardinality(U)
  <2>1. IsFiniteSet(parts[n])
    BY <1>1, <1>3, PartIs
  <2>2. /\ IsFiniteSet(tops[n]) /\ Cardinality(tops[n]) \in Nat /\ Cardinality(parts[n]) \in Nat
        /\ Cardinality(tops[n]) = Cardinality(parts[n]) => tops[n] = parts[n]
    BY <2>1, <1>3, PartIs
  <2>3. Cardinality(tops[n]) = Smaller(Cardinality(parts[n]), k)
    BY <1>3
  <2>4. Cardinality(tops[n]) = k
    BY <2>2, <2>3, <1>9 DEF Smaller
  <2>5. Cardinality(tops[n]) <= Cardinality(U)
    BY <1>3, <1>7, PartIs
  <2> QED BY <2>2, <2>4, <2>5
<1>10. Cardinality(M) = Smaller(Cardinality(S), k)
  <2>1. CASE U = S
    BY <2>1, <1>2
  <2>2. CASE U # S
    <3>1. PICK x \in S : x \notin U
      BY <2>2, <1>6
    <3>2. PICK n \in N : x \in parts[n]
      BY <1>5
    <3>3. tops[n] # parts[n]
      BY <3>1, <3>2, <1>3
    <3>4. k <= Cardinality(U)
      BY <3>3, <1>9
    <3> QED BY <3>4, <1>1, <1>2, <1>7 DEF Smaller
  <2> QED BY <2>1, <2>2
<1>11. ASSUME NEW b \in M, NEW s \in S \ M PROVE Better(b, s)
  <2>1. CASE s \in U
    BY <2>1, <1>2
  <2>2. CASE s \notin U
    <3>1. PICK n \in N : s \in parts[n]
      BY <1>5
    <3>2. s \in parts[n] \ tops[n]
      BY <3>1, <2>2, <1>3
    <3>3. IsFiniteSet(tops[n]) /\ Cardinality(tops[n]) = k /\ k <= Cardinality(U)
      BY <3>2, <1>9
    <3>4. Cardinality(M) = k
      BY <3>3, <1>2, <1>7 DEF Smaller
    <3>5. CASE b \in tops[n]
      BY <3>2, <3>5, <1>3
    <3>6. CASE b \notin tops[n]
      <4>1. ~(tops[n] \in SUBSET M)
        BY <3>3, <3>4, <3>6, <1>8, PartIs
      <4>2. PICK h \in tops[n] : h \notin M
        BY <4>1
      <4>3. Better(h, s)
        BY <3>2, <1>3
      <4>4. h \in U \ M
        BY <4>2, <1>3
      <4>5. Better(b, h)
        BY <4>4, <1>2
      <4>6. b \in Hit /\ h \in Hit /\ s \in Hit
        BY <4>4, <1>1, <1>6, <1>8
      <4> QED BY <4>3, <4>5, <4>6, BetterOrder
    <3> QED BY <3>5, <3>6
  <2> QED BY <2>1, <2>2
<1> QED BY <1>8, <1>10, <1>11 DEF IsBest, S

-----------------------------------------------------------------------------
(* The collector over lists of candidates                                  *)

\* The heaps that the first candidates of a list leave, one after the other.
Heaps(heap, list, k, n, g) ==
  /\ g = [i \in 0..n |-> g[i]]
  /\ g[0] = heap
  /\ \A i \in 1..n : g[i] = Collect(g[i - 1], list[i], k)

LEMMA HeapsExist ==
  ASSUME NEW heap, NEW list, NEW k, NEW m \in Nat
  PROVE  \E g : Heaps(heap, list, k, m, g)
<1> DEFINE Has(n) == \E g : Heaps(heap, list, k, n, g)
           Bad == {n \in Nat : ~Has(n)}
<1> SUFFICES ASSUME Bad # {} PROVE FALSE
  OBVIOUS
<1>1. PICK n \in Bad : \A j \in Bad : n <= j
  <2>1. Bad \in SUBSET Nat
    OBVIOUS
  <2> HIDE DEF Bad
  <2> QED BY <2>1, NatMin
<1>2. n \in Nat /\ ~Has(n)
  BY <1>1
<1>3. CASE n = 0
  <2> DEFINE g == [i \in 0..0 |-> heap]
  <2>1. g = [i \in 0..0 |-> g[i]] /\ g[0] = heap /\ 1..0 = {}
    OBVIOUS
  <2> HIDE DEF g
  <2>2. Heaps(heap, list, k, 0, g)
    BY <2>1 DEF Heaps
  <2> QED BY <2>2, <1>2, <1>3
<1>4. CASE n # 0
  <2>1. n - 1 \in Nat /\ n - 1 < n
    BY <1>2, <1>4
  <2>2. n - 1 \notin Bad
    <3> HIDE DEF Bad
    <3> QED BY <2>1, <1>1, <1>2
  <2>3. PICK f : Heaps(heap, list, k, n - 1, f)
    BY <2>1, <2>2
  <2>4. f[0] = heap /\ \A i \in 1..(n - 1) : f[i] = Collect(f[i - 1], list[i], k)
    BY <2>3 DEF Heaps
  <2> DEFINE g == [i \in 0..n |-> IF i = n THEN Collect(f[n - 1], list[n], k) ELSE f[i]]
  <2>5. g = [i \in 0..n |-> g[i]]
    OBVIOUS
  <2>6. /\ \A i \in 0..(n - 1) : g[i] = f[i]
        /\ g[n] = Collect(f[n - 1], list[n], k)
    BY <1>2
  <2> HIDE DEF g
  <2>7. \A i \in 1..n : /\ i - 1 \in 0..(n - 1)
                        /\ i # n => i \in 1..(n - 1) /\ i \in 0..(n - 1)
    BY <1>2
  <2>8. g[0] = heap
    <3>1. 0 \in 0..(n - 1)
      BY <2>1
    <3> QED BY <3>1, <2>4, <2>6
  <2>9. \A i \in 1..n : g[i] = Collect(g[i - 1], list[i], k)
    <3> TAKE i \in 1..n
    <3>1. g[i - 1] = f[i - 1]
      BY <2>6, <2>7
    <3>2. CASE i = n
      BY <3>1, <3>2, <2>6
    <3>3. CASE i # n
      <4>1. g[i] = f[i]
        BY <3>3, <2>6, <2>7
      <4>2. f[i] = Collect(f[i - 1], list[i], k)
        BY <3>3, <2>4, <2>7
      <4> QED BY <3>1, <4>1, <4>2
    <3> QED BY <3>2, <3>3
  <2>10. Heaps(heap, list, k, n, g)
    BY <2>5, <2>8, <2>9 DEF Heaps
  <2> QED BY <2>10, <1>2
<1> QED BY <1>3, <1>4

\* What the collector holds after the list is the last of them.
LEMMA CollectedIs ==
  ASSUME NEW heap, NEW list, NEW k, Len(list) \in Nat
  PROVE  \E g : Heaps(heap, list, k, Len(list), g) /\ Collected(heap, list, k) = g[Len(list)]
<1> DEFINE m == Len(list)
           F(g) == [n \in 0..m |-> IF n = 0 THEN heap ELSE Collect(g[n - 1], list[n], k)]
           kept == CHOOSE g : g = F(g)
<1>1. Collected(heap, list, k) = kept[m]
  BY DEF Collected
<1>2. m \in Nat
  OBVIOUS
<1> HIDE DEF m
<1>3. PICK h : Heaps(heap, list, k, m, h)
  BY <1>2, HeapsExist
<1>4. h = F(h)
  <2>1. /\ h = [n \in 0..m |-> h[n]] /\ h[0] = heap
        /\ \A n \in 1..m : h[n] = Collect(h[n - 1], list[n], k)
    BY <1>3 DEF Heaps
  <2>2. \A n \in 0..m : n # 0 => n \in 1..m
    BY <1>2
  <2>3. \A n \in 0..m : h[n] = IF n = 0 THEN heap ELSE Collect(h[n - 1], list[n], k)
    BY <2>1, <2>2
  <2>4. [n \in 0..m |-> h[n]] = F(h)
    BY <2>3
  <2> QED BY <2>1, <2>4
<1>5. kept = F(kept)
  <2> HIDE DEF F
  <2> QED BY <1>4
<1> HIDE DEF kept
<1>6. Heaps(heap, list, k, m, kept)
  <2>1. /\ DOMAIN F(kept) = 0..m
        /\ \A n \in 0..m : F(kept)[n] = IF n = 0 THEN heap ELSE Collect(kept[n - 1], list[n], k)
        /\ F(kept) = [n \in 0..m |-> F(kept)[n]]
    OBVIOUS
  <2> HIDE DEF F
  <2>2. /\ kept = [n \in 0..m |-> kept[n]]
        /\ \A n \in 0..m : kept[n] = IF n = 0 THEN heap ELSE Collect(kept[n - 1], list[n], k)
    BY <2>1, <1>5
  <2>3. 0 \in 0..m /\ \A n \in 1..m : n \in 0..m /\ n # 0
    BY <1>2
  <2>4. kept[0] = heap
    BY <2>2, <2>3
  <2>5. \A n \in 1..m : kept[n] = Collect(kept[n - 1], list[n], k)
    BY <2>2, <2>3
  <2> QED BY <2>2, <2>4, <2>5 DEF Heaps
<1> QED BY <1>1, <1>6 DEF m

\* Offering a list to a heap of the k best leaves the k best of both.
LEMMA CollectedBest ==
  ASSUME NEW S, Hits(S), NEW k \in Nat, NEW H, IsBest(H, S, k),
         NEW list, Listing(list), S \cap HitsOf(list) = {}
  PROVE  /\ IsBest(Collected(H, list, k), S \cup HitsOf(list), k)
         /\ Hits(S \cup HitsOf(list))
<1> DEFINE m == Len(list)
           First(n) == {list[i] : i \in 1..n}
           Good(g, n) == IsBest(g[n], S \cup First(n), k) /\ Hits(S \cup First(n))
<1>1. /\ m \in Nat /\ DOMAIN list = 1..m
      /\ \A i \in 1..m : list[i] \in Hit
      /\ \A i, j \in 1..m : list[i] = list[j] => i = j
  BY DEF Listing
<1>2. PICK g : Heaps(H, list, k, m, g) /\ Collected(H, list, k) = g[m]
  BY <1>1, CollectedIs
<1>3. g[0] = H /\ \A i \in 1..m : g[i] = Collect(g[i - 1], list[i], k)
  BY <1>2 DEF Heaps
<1> HIDE DEF m
<1> DEFINE Bad == {n \in 0..m : ~Good(g, n)}
<1>4. Bad = {}
  <2> SUFFICES ASSUME Bad # {} PROVE FALSE
    OBVIOUS
  <2>1. PICK n \in Bad : \A j \in Bad : n <= j
    <3>1. Bad \in SUBSET Nat
      BY <1>1
    <3> HIDE DEF Bad
    <3> QED BY <3>1, NatMin
  <2>2. n \in 0..m /\ ~Good(g, n)
    BY <2>1
  <2>3. CASE n = 0
    <3>1. S \cup First(0) = S
      OBVIOUS
    <3> HIDE DEF First
    <3>2. Good(g, 0)
      BY <3>1, <1>3
    <3> QED BY <3>2, <2>2, <2>3
  <2>4. CASE n # 0
    <3>1. n - 1 \in 0..m /\ n \in 1..m /\ n - 1 < n /\ n \in Nat
      BY <2>2, <2>4, <1>1
    <3>2. n - 1 \notin Bad
      <4> HIDE DEF Bad
      <4> QED BY <3>1, <2>1
    <3>3. Good(g, n - 1)
      BY <3>1, <3>2
    <3> DEFINE T == S \cup First(n - 1)
               c == list[n]
    <3>4. IsBest(g[n - 1], T, k) /\ Hits(T)
      BY <3>3
    <3>5. c \in Hit /\ g[n] = Collect(g[n - 1], c, k)
      BY <3>1, <1>1, <1>3
    <3>6. c \notin T
      <4>1. c \in HitsOf(list)
        BY <3>1, <1>1 DEF HitsOf
      <4>2. ASSUME c \in First(n - 1) PROVE FALSE
        <5>1. PICK i \in 1..(n - 1) : list[i] = c
          BY <4>2
        <5>2. i \in 1..m /\ i # n
          BY <3>1, <1>1
        <5> QED BY <5>1, <5>2, <3>1, <1>1
      <4> QED BY <4>1, <4>2
    <3>7. S \cup First(n) = T \cup {c}
      <4>1. 1..n = 1..(n - 1) \cup {n}
        BY <3>1
      <4> QED BY <4>1
    <3> HIDE DEF T, c, First
    <3>8. IsBest(Collect(g[n - 1], c, k), T \cup {c}, k) /\ Hits(T \cup {c})
      BY <3>4, <3>5, <3>6, CollectBest
    <3> QED BY <3>5, <3>7, <3>8, <2>2
  <2> QED BY <2>3, <2>4
<1>5. Good(g, m)
  <2>1. m \in 0..m
    BY <1>1
  <2> QED BY <2>1, <1>4
<1>6. First(m) = HitsOf(list)
  BY <1>1 DEF HitsOf
<1> HIDE DEF First
<1> QED BY <1>2, <1>5, <1>6

\* The k best of a list, from an empty heap.
LEMMA CollectedAll ==
  ASSUME NEW k \in Nat, NEW list, Listing(list)
  PROVE  IsBest(Collected({}, list, k), HitsOf(list), k) /\ Hits(HitsOf(list))
<1>1. Hits({}) /\ IsBest({}, {}, k)
  BY FS_EmptySet DEF Hits, IsBest, Smaller
<1>2. {} \cap HitsOf(list) = {} /\ {} \cup HitsOf(list) = HitsOf(list)
  OBVIOUS
<1> QED BY <1>1, <1>2, CollectedBest

\* Lists that share no hit.
Apart(lists, n) ==
  /\ \A i \in 1..n : Listing(lists[i])
  /\ \A i, j \in 1..n : i # j => HitsOf(lists[i]) \cap HitsOf(lists[j]) = {}

\* The heaps that the first lists leave.
MergedHeaps(lists, k, n, g) ==
  /\ g = [i \in 0..n |-> g[i]]
  /\ g[0] = {}
  /\ \A i \in 1..n : g[i] = Collected(g[i - 1], lists[i], k)

LEMMA MergedHeapsExist ==
  ASSUME NEW lists, NEW k, NEW m \in Nat
  PROVE  \E g : MergedHeaps(lists, k, m, g)
<1> DEFINE Has(n) == \E g : MergedHeaps(lists, k, n, g)
           Bad == {n \in Nat : ~Has(n)}
<1> SUFFICES ASSUME Bad # {} PROVE FALSE
  OBVIOUS
<1>1. PICK n \in Bad : \A j \in Bad : n <= j
  <2>1. Bad \in SUBSET Nat
    OBVIOUS
  <2> HIDE DEF Bad
  <2> QED BY <2>1, NatMin
<1>2. n \in Nat /\ ~Has(n)
  BY <1>1
<1>3. CASE n = 0
  <2> DEFINE g == [i \in 0..0 |-> {}]
  <2>1. g = [i \in 0..0 |-> g[i]] /\ g[0] = {} /\ 1..0 = {}
    OBVIOUS
  <2> HIDE DEF g
  <2>2. MergedHeaps(lists, k, 0, g)
    BY <2>1 DEF MergedHeaps
  <2> QED BY <2>2, <1>2, <1>3
<1>4. CASE n # 0
  <2>1. n - 1 \in Nat /\ n - 1 < n
    BY <1>2, <1>4
  <2>2. n - 1 \notin Bad
    <3> HIDE DEF Bad
    <3> QED BY <2>1, <1>1, <1>2
  <2>3. PICK f : MergedHeaps(lists, k, n - 1, f)
    BY <2>1, <2>2
  <2>4. f[0] = {} /\ \A i \in 1..(n - 1) : f[i] = Collected(f[i - 1], lists[i], k)
    BY <2>3 DEF MergedHeaps
  <2> DEFINE g == [i \in 0..n |-> IF i = n THEN Collected(f[n - 1], lists[n], k) ELSE f[i]]
  <2>5. g = [i \in 0..n |-> g[i]]
    OBVIOUS
  <2>6. /\ \A i \in 0..(n - 1) : g[i] = f[i]
        /\ g[n] = Collected(f[n - 1], lists[n], k)
    BY <1>2
  <2> HIDE DEF g
  <2>7. \A i \in 1..n : /\ i - 1 \in 0..(n - 1)
                        /\ i # n => i \in 1..(n - 1) /\ i \in 0..(n - 1)
    BY <1>2
  <2>8. g[0] = {}
    <3>1. 0 \in 0..(n - 1)
      BY <2>1
    <3> QED BY <3>1, <2>4, <2>6
  <2>9. \A i \in 1..n : g[i] = Collected(g[i - 1], lists[i], k)
    <3> TAKE i \in 1..n
    <3>1. g[i - 1] = f[i - 1]
      BY <2>6, <2>7
    <3>2. CASE i = n
      BY <3>1, <3>2, <2>6
    <3>3. CASE i # n
      <4>1. g[i] = f[i]
        BY <3>3, <2>6, <2>7
      <4>2. f[i] = Collected(f[i - 1], lists[i], k)
        BY <3>3, <2>4, <2>7
      <4> QED BY <3>1, <4>1, <4>2
    <3> QED BY <3>2, <3>3
  <2>10. MergedHeaps(lists, k, n, g)
    BY <2>5, <2>8, <2>9 DEF MergedHeaps
  <2> QED BY <2>10, <1>2
<1> QED BY <1>3, <1>4

LEMMA MergedIs ==
  ASSUME NEW lists, NEW k, Len(lists) \in Nat
  PROVE  \E g : MergedHeaps(lists, k, Len(lists), g) /\ Merged(lists, k) = g[Len(lists)]
<1> DEFINE m == Len(lists)
           F(g) == [n \in 0..m |-> IF n = 0 THEN {} ELSE Collected(g[n - 1], lists[n], k)]
           kept == CHOOSE g : g = F(g)
<1>1. Merged(lists, k) = kept[m]
  BY DEF Merged
<1>2. m \in Nat
  OBVIOUS
<1> HIDE DEF m
<1>3. PICK h : MergedHeaps(lists, k, m, h)
  BY <1>2, MergedHeapsExist
<1>4. h = F(h)
  <2>1. /\ h = [n \in 0..m |-> h[n]] /\ h[0] = {}
        /\ \A n \in 1..m : h[n] = Collected(h[n - 1], lists[n], k)
    BY <1>3 DEF MergedHeaps
  <2>2. \A n \in 0..m : n # 0 => n \in 1..m
    BY <1>2
  <2>3. \A n \in 0..m : h[n] = IF n = 0 THEN {} ELSE Collected(h[n - 1], lists[n], k)
    BY <2>1, <2>2
  <2>4. [n \in 0..m |-> h[n]] = F(h)
    BY <2>3
  <2> QED BY <2>1, <2>4
<1>5. kept = F(kept)
  <2> HIDE DEF F
  <2> QED BY <1>4
<1> HIDE DEF kept
<1>6. MergedHeaps(lists, k, m, kept)
  <2>1. /\ \A n \in 0..m : F(kept)[n] = IF n = 0 THEN {} ELSE Collected(kept[n - 1], lists[n], k)
        /\ F(kept) = [n \in 0..m |-> F(kept)[n]]
    OBVIOUS
  <2> HIDE DEF F
  <2>2. /\ kept = [n \in 0..m |-> kept[n]]
        /\ \A n \in 0..m : kept[n] = IF n = 0 THEN {} ELSE Collected(kept[n - 1], lists[n], k)
    BY <2>1, <1>5
  <2>3. 0 \in 0..m /\ \A n \in 1..m : n \in 0..m /\ n # 0
    BY <1>2
  <2>4. kept[0] = {}
    BY <2>2, <2>3
  <2>5. \A n \in 1..m : kept[n] = Collected(kept[n - 1], lists[n], k)
    BY <2>2, <2>3
  <2> QED BY <2>2, <2>4, <2>5 DEF MergedHeaps
<1> QED BY <1>1, <1>6 DEF m

\* All hits of the first lists.
HitsUpTo(lists, n) == UNION {HitsOf(lists[i]) : i \in 1..n}

\* Offering lists that share no hit leaves the k best of all.
LEMMA MergedBest ==
  ASSUME NEW k \in Nat, NEW lists, Len(lists) \in Nat, Apart(lists, Len(lists))
  PROVE  /\ IsBest(Merged(lists, k), HitsUpTo(lists, Len(lists)), k)
         /\ Hits(HitsUpTo(lists, Len(lists)))
<1> DEFINE m == Len(lists)
           Good(g, n) == IsBest(g[n], HitsUpTo(lists, n), k) /\ Hits(HitsUpTo(lists, n))
<1>1. /\ m \in Nat
      /\ \A i \in 1..m : Listing(lists[i])
      /\ \A i, j \in 1..m : i # j => HitsOf(lists[i]) \cap HitsOf(lists[j]) = {}
  BY DEF Apart
<1>2. PICK g : MergedHeaps(lists, k, m, g) /\ Merged(lists, k) = g[m]
  BY MergedIs
<1>3. g[0] = {} /\ \A i \in 1..m : g[i] = Collected(g[i - 1], lists[i], k)
  BY <1>2 DEF MergedHeaps
<1> HIDE DEF m
<1> DEFINE Bad == {n \in 0..m : ~Good(g, n)}
<1>4. Bad = {}
  <2> SUFFICES ASSUME Bad # {} PROVE FALSE
    OBVIOUS
  <2>1. PICK n \in Bad : \A j \in Bad : n <= j
    <3>1. Bad \in SUBSET Nat
      BY <1>1
    <3> HIDE DEF Bad
    <3> QED BY <3>1, NatMin
  <2>2. n \in 0..m /\ ~Good(g, n)
    BY <2>1
  <2>3. CASE n = 0
    <3>1. HitsUpTo(lists, 0) = {}
      BY DEF HitsUpTo
    <3>2. IsBest({}, {}, k) /\ Hits({})
      BY FS_EmptySet DEF Hits, IsBest, Smaller
    <3> QED BY <3>1, <3>2, <1>3, <2>2, <2>3
  <2>4. CASE n # 0
    <3>1. n - 1 \in 0..m /\ n \in 1..m /\ n - 1 < n /\ n \in Nat
      BY <2>2, <2>4, <1>1
    <3>2. n - 1 \notin Bad
      <4> HIDE DEF Bad
      <4> QED BY <3>1, <2>1
    <3>3. Good(g, n - 1)
      BY <3>1, <3>2
    <3> DEFINE S == HitsUpTo(lists, n - 1)
               l == lists[n]
    <3>4. IsBest(g[n - 1], S, k) /\ Hits(S)
      BY <3>3
    <3>5. Listing(l) /\ g[n] = Collected(g[n - 1], l, k)
      BY <3>1, <1>1, <1>3
    <3>6. S \cap HitsOf(l) = {}
      <4>1. \A i \in 1..(n - 1) : i \in 1..m /\ i # n
        BY <3>1, <1>1
      <4>2. \A i \in 1..(n - 1) : HitsOf(lists[i]) \cap HitsOf(l) = {}
        BY <4>1, <3>1, <1>1
      <4> QED BY <4>2 DEF HitsUpTo
    <3>7. HitsUpTo(lists, n) = S \cup HitsOf(l)
      <4>1. 1..n = 1..(n - 1) \cup {n}
        BY <3>1
      <4> QED BY <4>1 DEF HitsUpTo
    <3> HIDE DEF S, l
    <3>8. IsBest(Collected(g[n - 1], l, k), S \cup HitsOf(l), k) /\ Hits(S \cup HitsOf(l))
      BY <3>4, <3>5, <3>6, CollectedBest
    <3> QED BY <3>5, <3>7, <3>8, <2>2
  <2> QED BY <2>3, <2>4
<1>5. Good(g, m)
  <2>1. m \in 0..m
    BY <1>1
  <2> QED BY <2>1, <1>4
<1> QED BY <1>2, <1>5 DEF m

\* What the collector makes of one list of candidates, best first: what one
\* executor answers.
TopHits(list, k) == Results(Collected({}, list, k))

\* The executor's cut (TopKCollector, of executor.cpp): its hits are as many
\* of the candidates as were asked for or exist, in the public order, each
\* once, and no candidate that it left out is as good as one of them,
\* in whatever order the candidates came.
THEOREM TopHitsAreBest ==
  ASSUME NEW k \in Nat, NEW list, Listing(list)
  PROVE  /\ Listing(TopHits(list, k))
         /\ Len(TopHits(list, k)) = Smaller(Len(list), k)
         /\ HitsOf(TopHits(list, k)) \in SUBSET HitsOf(list)
         /\ \A i, j \in DOMAIN TopHits(list, k) :
              i < j => Better(TopHits(list, k)[i], TopHits(list, k)[j])
         /\ \A hit \in HitsOf(TopHits(list, k)) :
              \A other \in HitsOf(list) \ HitsOf(TopHits(list, k)) : Better(hit, other)
<1> DEFINE H == Collected({}, list, k)
           S == HitsOf(list)
           r == TopHits(list, k)
<1>1. IsBest(H, S, k) /\ Hits(S)
  BY CollectedAll
<1>2. /\ H \in SUBSET S /\ Cardinality(H) = Smaller(Cardinality(S), k)
      /\ \A b \in H : \A s \in S \ H : Better(b, s)
  BY <1>1 DEF IsBest
<1>3. S \in SUBSET Hit /\ IsFiniteSet(S)
  BY <1>1 DEF Hits
<1>4. Cardinality(S) = Len(list)
  <2> DEFINE n == Len(list)
  <2>1. /\ n \in Nat /\ list \in [1..n -> Hit]
        /\ \A i, j \in 1..n : list[i] = list[j] => i = j
    BY DEF Listing
  <2>2. S = {list[i] : i \in 1..n}
    BY <2>1 DEF HitsOf
  <2>3. IsFiniteSet(1..n) /\ Cardinality(1..n) = n
    BY <2>1, FS_Interval
  <2> HIDE DEF n, S
  <2>4. list \in Injection(1..n, S) /\ list \in Surjection(1..n, S)
    BY <2>1, <2>2 DEF Injection, IsInjective, Surjection
  <2>5. list \in Bijection(1..n, S)
    BY <2>4 DEF Bijection
  <2>6. Cardinality(S) = Cardinality(1..n)
    BY <2>3, <2>5, FS_Bijection DEF ExistsBijection
  <2> QED BY <2>3, <2>6 DEF n
<1>5. r = Results(H)
  BY DEF TopHits
<1> HIDE DEF H, r, S
<1>6. H \in SUBSET Hit /\ IsFiniteSet(H)
  BY <1>2, <1>3, FS_Subset
<1>7. /\ Listing(r) /\ HitsOf(r) = H /\ Len(r) = Cardinality(H)
      /\ \A i, j \in DOMAIN r : i < j => Better(r[i], r[j])
  BY <1>5, <1>6, ResultsIs
<1> QED BY <1>2, <1>4, <1>7 DEF r, S

\* The cluster's merge (LocalShardCluster::search): cutting each shard's
\* candidates to the k best, offering those to one collector shard by shard,
\* and listing what it holds gives the hits, scores and order that one index
\* gives which has all the candidates, in whatever order it finds them.  No
\* document is on two shards.
THEOREM MergedAsOne ==
  ASSUME NEW k \in Nat, NEW m \in Nat, NEW candidates, Apart(candidates, m),
         NEW all, Listing(all), HitsOf(all) = HitsUpTo(candidates, m)
  PROVE  Results(Merged([i \in 1..m |-> TopHits(candidates[i], k)], k)) = TopHits(all, k)
<1> DEFINE lists == [i \in 1..m |-> TopHits(candidates[i], k)]
           parts == [i \in 1..m |-> HitsOf(candidates[i])]
           tops == [i \in 1..m |-> HitsOf(lists[i])]
           S == HitsOf(all)
<1>1. Len(lists) = m
  OBVIOUS
<1>2. ASSUME NEW i \in 1..m
      PROVE  /\ Listing(lists[i]) /\ HitsOf(lists[i]) \in SUBSET HitsOf(candidates[i])
             /\ IsBest(HitsOf(lists[i]), HitsOf(candidates[i]), k)
  <2> DEFINE list == candidates[i]
             H == Collected({}, list, k)
  <2>1. lists[i] = Results(H)
    BY DEF TopHits
  <2>2. Listing(list)
    BY DEF Apart
  <2> HIDE DEF lists, list
  <2>3. IsBest(H, HitsOf(list), k) /\ Hits(HitsOf(list))
    BY <2>2, CollectedAll
  <2> HIDE DEF H
  <2>4. H \in SUBSET HitsOf(list)
    BY <2>3 DEF IsBest
  <2>5. H \in SUBSET Hit /\ IsFiniteSet(H)
    BY <2>3, <2>4, FS_Subset DEF Hits
  <2>6. Listing(Results(H)) /\ HitsOf(Results(H)) = H
    BY <2>5, ResultsIs
  <2> QED BY <2>1, <2>3, <2>4, <2>6 DEF list
<1> HIDE DEF lists
<1>3. Apart(lists, m)
  <2>1. \A i, j \in 1..m : i # j => HitsOf(candidates[i]) \cap HitsOf(candidates[j]) = {}
    BY DEF Apart
  <2>2. \A i, j \in 1..m : i # j => HitsOf(lists[i]) \cap HitsOf(lists[j]) = {}
    BY <2>1, <1>2
  <2> QED BY <2>2, <1>2 DEF Apart
<1> DEFINE M == Merged(lists, k)
           N == 1..m
<1>4. IsBest(M, HitsUpTo(lists, m), k)
  BY <1>1, <1>3, MergedBest
<1>5. HitsUpTo(lists, m) = Together(tops, N)
  BY DEF HitsUpTo, Together
<1>6. IsBest(Collected({}, all, k), S, k) /\ Hits(S)
  BY CollectedAll
<1>7. S = Together(parts, N)
  BY DEF HitsUpTo, Together
<1>8. \A n \in N : IsBest(tops[n], parts[n], k)
  BY <1>2
<1> HIDE DEF S, M, N, parts, tops
<1>9. IsBest(M, Together(tops, N), k) /\ Hits(Together(parts, N))
  BY <1>4, <1>5, <1>6, <1>7
<1>10. IsBest(M, Together(parts, N), k)
  BY <1>8, <1>9, PartsBest
<1>11. M = Collected({}, all, k)
  BY <1>6, <1>7, <1>10, OneBest
<1> QED BY <1>11 DEF M, lists, TopHits

-----------------------------------------------------------------------------
(* The merge of the shards' answers                                        *)

\* Whatever the shards find among their own documents, the n-th list of
\* candidates on the n-th shard.
FoundOnShards(candidates) ==
  \A n \in 1..ShardCount :
    /\ Listing(candidates[n])
    /\ \A hit \in HitsOf(candidates[n]) : hit.id \in DOMAIN shards[n - 1].documents

\* Cut and merged, it is what one index would give that finds it all.
MergeFaithful ==
  \A k \in Nat : \A candidates \in [1..ShardCount -> Seq(Hit)] : \A all \in Seq(Hit) :
    FoundOnShards(candidates) /\ Listing(all)
      /\ HitsOf(all) = HitsUpTo(candidates, ShardCount)
    => Results(Merged([n \in 1..ShardCount |-> TopHits(candidates[n], k)], k)) = TopHits(all, k)

\* In every state that puts and erasures reach, the merge of
\* LocalShardCluster::search loses no hit, repeats none and orders them as
\* the oracle would: no document is found on two shards.
THEOREM MergesAreFaithful == StoreSpec => []MergeFaithful
<1>1. StoreInv => MergeFaithful
  <2> SUFFICES ASSUME StoreInv,
                      NEW k \in Nat, NEW candidates \in [1..ShardCount -> Seq(Hit)],
                      NEW all \in Seq(Hit), FoundOnShards(candidates), Listing(all),
                      HitsOf(all) = HitsUpTo(candidates, ShardCount)
               PROVE  Results(Merged([n \in 1..ShardCount |-> TopHits(candidates[n], k)], k))
                        = TopHits(all, k)
    BY DEF MergeFaithful
  <2>1. ShardCount \in Nat
    BY ShardAssumption
  <2>2. ASSUME NEW n \in 1..ShardCount, NEW hit \in HitsOf(candidates[n])
        PROVE  Route(hit.id) = n - 1
    <3>1. n - 1 \in Numbers
      BY <2>1 DEF Numbers
    <3>2. hit.id \in DOMAIN shards[n - 1].documents
      BY DEF FoundOnShards
    <3> QED BY <3>1, <3>2 DEF StoreInv, PartitionOK
  <2>3. ASSUME NEW i \in 1..ShardCount, NEW j \in 1..ShardCount, i # j
        PROVE  HitsOf(candidates[i]) \cap HitsOf(candidates[j]) = {}
    <3>1. i - 1 # j - 1
      BY <2>1, <2>3
    <3> QED BY <3>1, <2>2
  <2>4. Apart(candidates, ShardCount)
    BY <2>3 DEF Apart, FoundOnShards
  <2> QED BY <2>1, <2>4, MergedAsOne
<1> QED BY <1>1, StoreInvariant, PTL

-----------------------------------------------------------------------------
(* Variable-byte integers                                                  *)

LEMMA DivisionIs ==
  ASSUME NEW a \in Nat, NEW b \in Nat \ {0}
  PROVE  /\ a \div b \in Nat /\ a % b \in Nat /\ a % b < b
         /\ a = (a \div b) * b + (a % b)
  OBVIOUS

LEMMA QuotientIs ==
  ASSUME NEW b \in Nat \ {0}, NEW q \in Nat, NEW r \in Nat, r < b
  PROVE  (q * b + r) \div b = q /\ (q * b + r) % b = r
  OBVIOUS

LEMMA DivisionTwice ==
  ASSUME NEW a \in Nat, NEW b \in Nat \ {0}, NEW c \in Nat \ {0}
  PROVE  a \div (b * c) = (a \div b) \div c
  OBVIOUS

\* The last group has the bits that the others leave: at least one, and no
\* more than a group.
LEMMA WidthsAre ==
  /\ Groups \in Nat \ {0} /\ PayloadBits * (Groups - 1) \in Nat
  /\ PayloadBits * (Groups - 1) < IntegerBits
  /\ IntegerBits - PayloadBits * (Groups - 1) <= PayloadBits
<1> DEFINE a == IntegerBits + PayloadBits - 1
           p == PayloadBits
           g == Groups
<1>1. a \in Nat /\ p \in Nat \ {0} /\ p < IntegerBits /\ a = IntegerBits + p - 1 /\ IntegerBits \in Nat
  BY CodecAssumption
<1>2. g = a \div p
  BY DEF Groups
<1> HIDE DEF a, p, g
<1>3. g \in Nat /\ a % p \in Nat /\ a % p < p /\ a = g * p + (a % p)
  BY <1>1, <1>2, DivisionIs
<1>4. g # 0
  BY <1>1, <1>3
<1>5. p * (g - 1) = g * p - p
  BY <1>1, <1>3
<1>6. g * p \in Nat
  BY <1>1, <1>3
<1>7. p * (g - 1) \in Nat
  BY <1>1, <1>3, <1>4
<1>8. p * (g - 1) < IntegerBits /\ IntegerBits - p * (g - 1) <= p
  BY <1>1, <1>3, <1>5, <1>6, <1>7
<1> QED BY <1>3, <1>4, <1>7, <1>8 DEF p, g

LEMMA PlacesAre ==
  /\ Radix \in Nat \ {0} /\ MaxValue \in Nat /\ LastPayload \in Nat
  /\ PlaceValue(1) = 1
  /\ \A n \in 1..Groups : /\ PlaceValue(n) \in Nat \ {0}
                          /\ PlaceValue(n + 1) = PlaceValue(n) * Radix
  /\ MaxValue + 1 = (LastPayload + 1) * PlaceValue(Groups)
  /\ LastPayload < Radix
<1> DEFINE p == PayloadBits
           w == IntegerBits
           g == Groups
           rest == w - p * (g - 1)
<1>1. p \in Nat \ {0} /\ w \in Nat /\ p < w
  BY CodecAssumption
<1>2. g \in Nat \ {0} /\ p * (g - 1) \in Nat /\ p * (g - 1) < w /\ rest <= p
  BY WidthsAre
<1> HIDE DEF p, g
<1>3. rest \in 0..w /\ p - rest \in 0..w /\ p \in 0..w /\ w \in 0..w /\ 0 \in 0..w
      /\ p * (g - 1) \in 0..w
  BY <1>1, <1>2
<1>4. \A m, n \in 0..w : 2^m \in Nat \ {0} /\ 2^(m + n) = 2^m * 2^n
  BY PowerAssumption
<1>5. 2^0 = 1
  <2>1. 2^0 \in Nat \ {0} /\ 2^(0 + 0) = 2^0 * 2^0
    BY <1>3, <1>4
  <2>2. 0 + 0 = 0
    OBVIOUS
  <2>3. 2^0 = 2^0 * 2^0
    BY <2>1, <2>2
  <2> QED BY <2>1, <2>3
<1>6. Radix \in Nat \ {0}
  BY <1>3, <1>4 DEF Radix, p
<1>7. PlaceValue(1) = 1
  <2>1. p * (1 - 1) = 0
    BY <1>1
  <2> QED BY <2>1, <1>5 DEF PlaceValue, p
<1>8. ASSUME NEW n \in 1..g
      PROVE  PlaceValue(n) \in Nat \ {0} /\ PlaceValue(n + 1) = PlaceValue(n) * Radix
  <2> DEFINE e == p * (n - 1)
  <2>1. e \in Nat /\ e <= p * (g - 1)
    <3>1. n - 1 \in Nat /\ g - 1 \in Nat /\ n - 1 <= g - 1
      BY <1>2
    <3> QED BY <3>1, <1>1
  <2>2. e \in 0..w
    BY <2>1, <1>1, <1>2
  <2>3. p * ((n + 1) - 1) = e + p
    BY <1>1, <1>2
  <2> HIDE DEF e
  <2>4. 2^e \in Nat \ {0} /\ 2^(e + p) = 2^e * 2^p
    BY <2>2, <1>3, <1>4
  <2> QED BY <2>3, <2>4 DEF PlaceValue, Radix, e, p
<1>9. 2^w \in Nat \ {0} /\ 2^rest \in Nat \ {0}
  BY <1>3, <1>4
<1>10. MaxValue \in Nat /\ MaxValue + 1 = 2^w
  BY <1>9 DEF MaxValue, w
<1>11. LastPayload \in Nat /\ LastPayload + 1 = 2^rest
  BY <1>9 DEF LastPayload, p, g
<1>12. 2^w = 2^rest * PlaceValue(g)
  <2>1. rest + p * (g - 1) = w
    BY <1>1, <1>2
  <2> HIDE DEF rest
  <2>2. 2^(rest + p * (g - 1)) = 2^rest * 2^(p * (g - 1))
    BY <1>3, <1>4
  <2> QED BY <2>1, <2>2 DEF PlaceValue, p
<1>13. LastPayload < Radix
  <2>1. rest + (p - rest) = p
    BY <1>1, <1>2
  <2> DEFINE more == p - rest
  <2> HIDE DEF rest
  <2>2. 2^more \in Nat \ {0} /\ 2^(rest + more) = 2^rest * 2^more
    BY <1>3, <1>4
  <2>3. 2^p = 2^rest * 2^more
    BY <2>1, <2>2
  <2> HIDE DEF more
  <2>4. 2^rest * 2^more >= 2^rest
    BY <2>2, <1>9
  <2>5. 2^p >= LastPayload + 1
    BY <2>3, <2>4, <1>11
  <2>6. 2^p = Radix
    BY DEF Radix, p
  <2> QED BY <2>5, <2>6, <1>6, <1>11
<1> QED BY <1>6, <1>7, <1>8, <1>10, <1>11, <1>12, <1>13 DEF g

\* Shifting by one group more.
LEMMA ShiftIs ==
  ASSUME NEW v \in Nat
  PROVE  /\ Shifted(v, 0) = v
         /\ \A n \in 0..Groups : Shifted(v, n) \in Nat
         /\ \A n \in 1..Groups :
              /\ Shifted(v, n) = Shifted(v, n - 1) \div Radix
              /\ Shifted(v, n - 1) % Radix \in Nat /\ Shifted(v, n - 1) % Radix < Radix
              /\ Shifted(v, n - 1) = Shifted(v, n) * Radix + (Shifted(v, n - 1) % Radix)
         /\ v <= MaxValue => Shifted(v, Groups) = 0
<1>1. Groups \in Nat \ {0}
  BY WidthsAre
<1>2. /\ Radix \in Nat \ {0} /\ MaxValue \in Nat /\ LastPayload \in Nat
      /\ PlaceValue(1) = 1
      /\ \A n \in 1..Groups : /\ PlaceValue(n) \in Nat \ {0}
                              /\ PlaceValue(n + 1) = PlaceValue(n) * Radix
      /\ MaxValue + 1 = (LastPayload + 1) * PlaceValue(Groups)
      /\ LastPayload < Radix
  BY PlacesAre
<1>3. ASSUME NEW n \in 1..(Groups + 1) PROVE PlaceValue(n) \in Nat \ {0}
  <2>1. CASE n \in 1..Groups
    BY <2>1, <1>2
  <2>2. CASE n = Groups + 1
    <3>1. Groups \in 1..Groups
      BY <1>1
    <3> DEFINE x == PlaceValue(Groups)
    <3>2. x \in Nat \ {0} /\ PlaceValue(n) = x * Radix
      BY <3>1, <2>2, <1>2
    <3> HIDE DEF x
    <3>3. x * Radix \in Nat \ {0}
      BY <3>2, <1>2
    <3> QED BY <3>2, <3>3
  <2> QED BY <2>1, <2>2, <1>1
<1>4. Shifted(v, 0) = v
  <2>1. 0 + 1 = 1 /\ v \div 1 = v
    OBVIOUS
  <2> QED BY <2>1, <1>2 DEF Shifted
<1>5. ASSUME NEW n \in 0..Groups PROVE Shifted(v, n) \in Nat
  <2>1. n + 1 \in 1..(Groups + 1)
    BY <1>1
  <2>2. PlaceValue(n + 1) \in Nat \ {0}
    BY <2>1, <1>3
  <2> QED BY <2>2, DivisionIs DEF Shifted
<1>6. ASSUME NEW n \in 1..Groups
      PROVE  /\ Shifted(v, n) = Shifted(v, n - 1) \div Radix
             /\ Shifted(v, n - 1) % Radix \in Nat /\ Shifted(v, n - 1) % Radix < Radix
             /\ Shifted(v, n - 1) = Shifted(v, n) * Radix + (Shifted(v, n - 1) % Radix)
  <2> DEFINE x == PlaceValue(n)
             s == Shifted(v, n - 1)
  <2>1. (n - 1) + 1 = n
    BY <1>1
  <2>2. s = v \div x /\ Shifted(v, n) = v \div PlaceValue(n + 1)
    BY <2>1 DEF Shifted
  <2>3. x \in Nat \ {0} /\ PlaceValue(n + 1) = x * Radix
    BY <1>2
  <2> HIDE DEF x, s
  <2>4. Shifted(v, n) = s \div Radix
    BY <2>2, <2>3, <1>2, DivisionTwice
  <2>5. n - 1 \in 0..Groups
    BY <1>1
  <2>6. s \in Nat
    BY <2>5, <1>5 DEF s
  <2>7. s % Radix \in Nat /\ s % Radix < Radix /\ s = (s \div Radix) * Radix + (s % Radix)
    BY <2>6, <1>2, DivisionIs
  <2> QED BY <2>4, <2>7 DEF s
<1>7. ASSUME v <= MaxValue PROVE Shifted(v, Groups) = 0
  <2> DEFINE x == PlaceValue(Groups)
             y == PlaceValue(Groups + 1)
  <2>1. Groups \in 1..Groups
    BY <1>1
  <2>2. x \in Nat \ {0} /\ y = x * Radix
    BY <2>1, <1>2
  <2>3. MaxValue + 1 = (LastPayload + 1) * x
    BY <1>2
  <2>4. Shifted(v, Groups) = v \div y
    BY DEF Shifted
  <2> HIDE DEF x, y
  <2>5. (LastPayload + 1) * x <= Radix * x
    BY <2>2, <1>2
  <2>6. Radix * x = y /\ y \in Nat \ {0}
    BY <2>2, <1>2
  <2>7. v < y
    BY <2>3, <2>5, <2>6, <1>2, <1>7
  <2>8. v \div y = 0
    BY <2>6, <2>7
  <2> QED BY <2>4, <2>8
<1> QED BY <1>4, <1>5, <1>6, <1>7

\* The bytes of an integer.
IsEncoding(v, bytes, size) ==
  /\ size \in 1..Groups
  /\ Shifted(v, size) = 0 /\ \A m \in 1..(size - 1) : Shifted(v, m) # 0
  /\ bytes = [n \in 1..size |-> [payload |-> Shifted(v, n - 1) % Radix, last |-> n = size]]

LEMMA EncodeIs ==
  ASSUME NEW v \in 0..MaxValue
  PROVE  IsEncoding(v, Encode(v), Len(Encode(v)))
<1> DEFINE P(n) == Shifted(v, n) = 0 /\ \A m \in 1..(n - 1) : Shifted(v, m) # 0
           size == CHOOSE n \in 1..Groups : P(n)
           Z == {n \in 1..Groups : Shifted(v, n) = 0}
<1>1. Groups \in Nat \ {0} /\ v \in Nat /\ v <= MaxValue
  BY WidthsAre, PlacesAre
<1>2. Shifted(v, Groups) = 0
  BY <1>1, ShiftIs
<1>3. PICK n \in Z : \A m \in Z : n <= m
  <2>1. Groups \in Z /\ Z \in SUBSET Nat
    BY <1>1, <1>2
  <2> HIDE DEF Z
  <2> QED BY <2>1, NatMin
<1>4. n \in 1..Groups /\ Shifted(v, n) = 0
  BY <1>3
<1>5. \A m \in 1..(n - 1) : Shifted(v, m) # 0
  <2> TAKE m \in 1..(n - 1)
  <2>1. m \in 1..Groups /\ ~(n <= m)
    BY <1>1, <1>4
  <2> QED BY <2>1, <1>3
<1>6. P(n)
  BY <1>4, <1>5
<1> HIDE DEF P
<1>7. size \in 1..Groups /\ P(size)
  BY <1>4, <1>6
<1>8. Encode(v) = [i \in 1..size |-> [payload |-> Shifted(v, i - 1) % Radix, last |-> i = size]]
  BY DEF Encode, P
<1> HIDE DEF size
<1>9. Len(Encode(v)) = size
  BY <1>1, <1>7, <1>8
<1> QED BY <1>7, <1>8, <1>9 DEF IsEncoding, P

\* The partial sums of the groups.
Sums(input, at, size, g) ==
  /\ g = [n \in 0..size |-> g[n]]
  /\ g[0] = 0
  /\ \A n \in 1..size : g[n] = g[n - 1] + input[at + n - 1].payload * PlaceValue(n)

LEMMA SumsExistUpTo ==
  ASSUME NEW input, NEW at, NEW size \in Nat
  PROVE  \E g : Sums(input, at, size, g)
<1> DEFINE Has(n) == \E g : Sums(input, at, n, g)
           Bad == {n \in Nat : ~Has(n)}
           T(n) == input[at + n - 1].payload * PlaceValue(n)
<1> SUFFICES ASSUME Bad # {} PROVE FALSE
  OBVIOUS
<1>1. PICK n \in Bad : \A j \in Bad : n <= j
  <2>1. Bad \in SUBSET Nat
    OBVIOUS
  <2> HIDE DEF Bad
  <2> QED BY <2>1, NatMin
<1>2. n \in Nat /\ ~Has(n)
  BY <1>1
<1>3. CASE n = 0
  <2> DEFINE g == [i \in 0..0 |-> 0]
  <2>1. g = [i \in 0..0 |-> g[i]] /\ g[0] = 0 /\ 1..0 = {}
    OBVIOUS
  <2> HIDE DEF g
  <2>2. Sums(input, at, 0, g)
    BY <2>1 DEF Sums
  <2> QED BY <2>2, <1>2, <1>3
<1>4. CASE n # 0
  <2>1. n - 1 \in Nat /\ n - 1 < n
    BY <1>2, <1>4
  <2>2. n - 1 \notin Bad
    <3> HIDE DEF Bad
    <3> QED BY <2>1, <1>1, <1>2
  <2>3. PICK f : Sums(input, at, n - 1, f)
    BY <2>1, <2>2
  <2>4. f[0] = 0 /\ \A i \in 1..(n - 1) : f[i] = f[i - 1] + T(i)
    BY <2>3 DEF Sums
  <2> DEFINE g == [i \in 0..n |-> IF i = n THEN f[n - 1] + T(n) ELSE f[i]]
  <2>5. g = [i \in 0..n |-> g[i]]
    OBVIOUS
  <2> HIDE DEF T
  <2>6. /\ \A i \in 0..(n - 1) : g[i] = f[i]
        /\ g[n] = f[n - 1] + T(n)
    BY <1>2
  <2> HIDE DEF g
  <2>7. \A i \in 1..n : /\ i - 1 \in 0..(n - 1)
                        /\ i # n => i \in 1..(n - 1) /\ i \in 0..(n - 1)
    BY <1>2
  <2>8. g[0] = 0
    <3>1. 0 \in 0..(n - 1)
      BY <2>1
    <3> QED BY <3>1, <2>4, <2>6
  <2>9. \A i \in 1..n : g[i] = g[i - 1] + T(i)
    <3> TAKE i \in 1..n
    <3>1. g[i - 1] = f[i - 1]
      BY <2>6, <2>7
    <3>2. CASE i = n
      BY <3>1, <3>2, <2>6
    <3>3. CASE i # n
      <4>1. g[i] = f[i]
        BY <3>3, <2>6, <2>7
      <4>2. f[i] = f[i - 1] + T(i)
        BY <3>3, <2>4, <2>7
      <4> QED BY <3>1, <4>1, <4>2
    <3> QED BY <3>2, <3>3
  <2>10. Sums(input, at, n, g)
    BY <2>5, <2>8, <2>9 DEF Sums, T
  <2> QED BY <2>10, <1>2
<1> QED BY <1>3, <1>4

LEMMA ValueIs ==
  ASSUME NEW input, NEW at, NEW m \in Nat
  PROVE  \E g : Sums(input, at, m, g) /\ ValueOf(input, at, m) = g[m]
<1> DEFINE T(n) == input[at + n - 1].payload * PlaceValue(n)
           F(g) == [n \in 0..m |-> IF n = 0 THEN 0 ELSE g[n - 1] + T(n)]
           sum == CHOOSE g : g = F(g)
<1>1. ValueOf(input, at, m) = sum[m]
  BY DEF ValueOf
<1>3. PICK h : Sums(input, at, m, h)
  BY SumsExistUpTo
<1>2. h = [n \in 0..m |-> h[n]] /\ h[0] = 0 /\ \A n \in 1..m : h[n] = h[n - 1] + T(n)
  BY <1>3 DEF Sums
<1> HIDE DEF T
<1>4. h = F(h)
  <2>2. \A n \in 0..m : n # 0 => n \in 1..m
    OBVIOUS
  <2>3. \A n \in 0..m : h[n] = IF n = 0 THEN 0 ELSE h[n - 1] + T(n)
    BY <1>2, <2>2
  <2>4. [n \in 0..m |-> h[n]] = F(h)
    BY <2>3
  <2> QED BY <1>2, <2>4
<1>5. sum = F(sum)
  <2> HIDE DEF F
  <2> QED BY <1>4
<1> HIDE DEF sum
<1>6. Sums(input, at, m, sum)
  <2>1. /\ \A n \in 0..m : F(sum)[n] = IF n = 0 THEN 0 ELSE sum[n - 1] + T(n)
        /\ F(sum) = [n \in 0..m |-> F(sum)[n]]
    OBVIOUS
  <2> HIDE DEF F
  <2>2. /\ sum = [n \in 0..m |-> sum[n]]
        /\ \A n \in 0..m : sum[n] = IF n = 0 THEN 0 ELSE sum[n - 1] + T(n)
    BY <2>1, <1>5
  <2>3. 0 \in 0..m /\ \A n \in 1..m : n \in 0..m /\ n # 0
    OBVIOUS
  <2>4. sum[0] = 0 /\ \A n \in 1..m : sum[n] = sum[n - 1] + T(n)
    BY <2>2, <2>3
  <2> QED BY <2>2, <2>4 DEF Sums, T
<1> QED BY <1>1, <1>6

\* These bytes are in the input, from a place on.
At(input, at, bytes) ==
  /\ at \in Nat \ {0} /\ Len(input) \in Nat /\ Len(bytes) \in Nat
  /\ at + Len(bytes) <= Len(input) + 1
  /\ \A i \in 1..Len(bytes) : input[at + i - 1] = bytes[i]

\* An integer is what is shifted out and what is left.
LEMMA SumsToValue ==
  ASSUME NEW v \in Nat, NEW size \in 1..Groups, NEW input, NEW at, NEW g, Sums(input, at, size, g),
         \A i \in 1..size : input[at + i - 1].payload = Shifted(v, i - 1) % Radix
  PROVE  \A n \in 0..size : g[n] \in Nat /\ v = Shifted(v, n) * PlaceValue(n + 1) + g[n]
<1> DEFINE Good(n) == g[n] \in Nat /\ v = Shifted(v, n) * PlaceValue(n + 1) + g[n]
           Bad == {n \in 0..size : ~Good(n)}
<1> SUFFICES ASSUME Bad # {} PROVE FALSE
  OBVIOUS
<1>1. Groups \in Nat /\ size \in Nat /\ Radix \in Nat
  BY WidthsAre, PlacesAre
<1>2. PICK n \in Bad : \A j \in Bad : n <= j
  <2>1. Bad \in SUBSET Nat
    BY <1>1
  <2> HIDE DEF Bad
  <2> QED BY <2>1, NatMin
<1>3. n \in 0..size /\ ~Good(n)
  BY <1>2
<1>4. CASE n = 0
  <2>1. g[0] = 0 /\ Shifted(v, 0) = v /\ PlaceValue(1) = 1 /\ 0 + 1 = 1
    BY ShiftIs, PlacesAre DEF Sums
  <2> QED BY <2>1, <1>3, <1>4
<1>5. CASE n # 0
  <2>1. n \in 1..size /\ n \in 1..Groups /\ n - 1 \in 0..size /\ n - 1 < n
        /\ n - 1 \in 0..Groups /\ n \in 0..Groups
    BY <1>1, <1>3, <1>5
  <2>2. n - 1 \notin Bad
    <3> HIDE DEF Bad
    <3> QED BY <2>1, <1>1, <1>2
  <2>3. Good(n - 1)
    BY <2>1, <2>2
  <2> DEFINE s == Shifted(v, n - 1)
             t == Shifted(v, n)
             d == s % Radix
             x == PlaceValue(n)
             y == g[n - 1]
  <2>4. (n - 1) + 1 = n
    BY <2>1, <1>1
  <2>5. y \in Nat /\ v = s * x + y
    BY <2>3, <2>4
  <2>6. s \in Nat /\ t \in Nat /\ d \in Nat /\ s = t * Radix + d
    BY <2>1, ShiftIs
  <2>7. x \in Nat /\ PlaceValue(n + 1) = x * Radix
    BY <2>1, PlacesAre
  <2>8. g[n] = y + d * x
    BY <2>1 DEF Sums
  <2> HIDE DEF s, t, d, x, y
  <2>9. g[n] \in Nat
    BY <2>5, <2>6, <2>7, <2>8
  <2>10. v = t * (x * Radix) + (y + d * x)
    BY <2>5, <2>6, <2>7, <1>1
  <2>11. Good(n)
    BY <2>7, <2>8, <2>9, <2>10 DEF t
  <2> QED BY <2>11, <1>3
<1> QED BY <1>4, <1>5

\* The first byte that is marked as the last.
LEMMA FirstEnd ==
  ASSUME NEW input, NEW at, NEW size \in Ends(input, at),
         \A m \in Ends(input, at) : size <= m
  PROVE  size = CHOOSE n \in Ends(input, at) : \A m \in Ends(input, at) : n <= m
<1> DEFINE E == Ends(input, at)
           first == CHOOSE n \in E : \A m \in E : n <= m
<1>1. E \in SUBSET Nat
  BY WidthsAre DEF Ends
<1> HIDE DEF E
<1>2. size \in E /\ \A m \in E : size <= m
  BY DEF E
<1>3. first \in E /\ \A m \in E : first <= m
  BY <1>2
<1>4. first <= size /\ size <= first /\ first \in Nat /\ size \in Nat
  BY <1>1, <1>2, <1>3
<1> QED BY <1>4 DEF E

\* What VariableByteCodec::encode has written, decode reads back: the same
\* integer, and the place behind its last byte, whatever comes before and
\* after; for every width of the integers and of the groups.
THEOREM IntegerDecodes ==
  ASSUME NEW v \in 0..MaxValue, NEW input, NEW at, At(input, at, Encode(v))
  PROVE  Decode(input, at) = [failed |-> FALSE, value |-> v, next |-> at + Len(Encode(v))]
<1> DEFINE e == Encode(v)
           n == Len(e)
           top == input[at + n - 1].payload
<1>1. IsEncoding(v, e, n)
  BY EncodeIs
<1>2. /\ at \in Nat \ {0} /\ Len(input) \in Nat /\ at + n <= Len(input) + 1
      /\ \A i \in 1..n : input[at + i - 1] = e[i]
  BY DEF At
<1>3. v \in Nat /\ v <= MaxValue /\ Groups \in Nat \ {0} /\ Radix \in Nat \ {0} /\ MaxValue \in Nat
      /\ LastPayload \in Nat
  BY WidthsAre, PlacesAre
<1> HIDE DEF e, n
<1>4. /\ n \in 1..Groups /\ Shifted(v, n) = 0 /\ \A m \in 1..(n - 1) : Shifted(v, m) # 0
      /\ \A i \in 1..n : e[i].payload = Shifted(v, i - 1) % Radix /\ e[i].last = (i = n)
  BY <1>1 DEF IsEncoding
<1>5. n \in Nat /\ n \in 1..n
  BY <1>3, <1>4
<1>6. n \in Ends(input, at) /\ \A m \in Ends(input, at) : n <= m
  <2>1. at + n - 1 <= Len(input) /\ input[at + n - 1].last
    <3>1. at + n - 1 <= Len(input)
      BY <1>2, <1>5
    <3>2. input[at + n - 1] = e[n] /\ e[n].last = (n = n)
      BY <1>2, <1>4, <1>5
    <3>3. input[at + n - 1].last
      BY <3>2, Zenon
    <3> QED BY <3>1, <3>3
  <2>2. ASSUME NEW m \in Ends(input, at), ~(n <= m) PROVE FALSE
    <3>1. m \in 1..Groups /\ input[at + m - 1].last
      BY DEF Ends
    <3>2. m \in 1..n /\ m # n
      BY <3>1, <2>2, <1>3, <1>5
    <3> QED BY <3>1, <3>2, <1>2, <1>4
  <2> QED BY <2>1, <2>2, <1>4 DEF Ends
<1>7. n = CHOOSE k \in Ends(input, at) : \A m \in Ends(input, at) : k <= m
  BY <1>6, FirstEnd
<1>8. PICK g : Sums(input, at, n, g) /\ ValueOf(input, at, n) = g[n]
  BY <1>5, ValueIs
<1>9. \A i \in 0..n : g[i] \in Nat /\ v = Shifted(v, i) * PlaceValue(i + 1) + g[i]
  <2>1. \A i \in 1..n : input[at + i - 1].payload = Shifted(v, i - 1) % Radix
    BY <1>2, <1>4
  <2> QED BY <2>1, <1>3, <1>4, <1>8, SumsToValue
<1>10. ValueOf(input, at, n) = v
  <2>1. n \in 0..n
    BY <1>5
  <2> DEFINE x == PlaceValue(n + 1)
  <2>2. g[n] \in Nat /\ v = 0 * x + g[n]
    BY <2>1, <1>4, <1>9
  <2>3. x \in Nat
    <3>1. n \in 1..Groups
      BY <1>4
    <3>2. PlaceValue(n) \in Nat /\ x = PlaceValue(n) * Radix
      BY <3>1, PlacesAre
    <3> QED BY <3>2, <1>3
  <2> HIDE DEF x
  <2> QED BY <2>2, <2>3, <1>8
<1> DEFINE s == Shifted(v, n - 1)
<1>11. top = s /\ s \in Nat
  <2>1. n - 1 \in 0..Groups /\ n \in 1..Groups
    BY <1>3, <1>4
  <2>2. top = s % Radix
    BY <1>2, <1>4, <1>5
  <2>3. s = Shifted(v, n) * Radix + (s % Radix) /\ s \in Nat /\ s % Radix \in Nat
    BY <2>1, <1>3, ShiftIs
  <2> HIDE DEF s, top
  <2>4. s = 0 * Radix + (s % Radix)
    BY <2>3, <1>4
  <2> QED BY <2>2, <2>3, <2>4, <1>3
<1>12. ~(n > 1 /\ top = 0)
  <2> SUFFICES ASSUME n > 1 PROVE s # 0
    BY <1>11
  <2>1. n - 1 \in 1..(n - 1)
    BY <1>5
  <2> QED BY <2>1, <1>4
<1>13. ~(n = Groups /\ top > LastPayload)
  <2> SUFFICES ASSUME n = Groups, top > LastPayload PROVE FALSE
    OBVIOUS
  <2> DEFINE x == PlaceValue(n)
             y == g[n - 1]
  <2>1. n - 1 \in 0..n /\ (n - 1) + 1 = n
    BY <1>3, <1>4
  <2>2. y \in Nat /\ v = s * x + y
    BY <2>1, <1>9
  <2>3. x \in Nat \ {0} /\ MaxValue + 1 = (LastPayload + 1) * x
    BY <1>4, PlacesAre
  <2> HIDE DEF s, x, y, top
  <2>4. s >= LastPayload + 1
    BY <1>3, <1>11
  <2>5. s * x >= (LastPayload + 1) * x
    BY <2>3, <2>4, <1>3, <1>11
  <2> QED BY <2>2, <2>3, <2>5, <1>3, <1>11
<1> HIDE DEF top
<1>14. Ends(input, at) # {}
  BY <1>6
<1> QED BY <1>7, <1>10, <1>12, <1>13, <1>14 DEF Decode, top, n, e

\* A later group counts for no less.
LEMMA PlacesGrow ==
  ASSUME NEW m \in 1..Groups
  PROVE  \A n \in 1..Groups : m <= n => PlaceValue(m) <= PlaceValue(n)
<1> DEFINE Bad == {n \in 1..Groups : m <= n /\ ~(PlaceValue(m) <= PlaceValue(n))}
<1> SUFFICES ASSUME Bad # {} PROVE FALSE
  OBVIOUS
<1>1. Groups \in Nat /\ m \in Nat /\ Radix \in Nat \ {0}
  BY WidthsAre, PlacesAre
<1>2. PICK n \in Bad : \A j \in Bad : n <= j
  <2>1. Bad \in SUBSET Nat
    BY <1>1
  <2> HIDE DEF Bad
  <2> QED BY <2>1, NatMin
<1>3. n \in 1..Groups /\ m <= n /\ ~(PlaceValue(m) <= PlaceValue(n)) /\ n \in Nat
  BY <1>1, <1>2
<1>4. PlaceValue(m) \in Nat /\ PlaceValue(n) \in Nat
  BY <1>3, PlacesAre
<1>5. n # m
  BY <1>3, <1>4
<1>6. n - 1 \in 1..Groups /\ m <= n - 1 /\ (n - 1) + 1 = n /\ n - 1 < n
  BY <1>1, <1>3, <1>5
<1>7. n - 1 \notin Bad
  <2> HIDE DEF Bad
  <2> QED BY <1>2, <1>3, <1>6
<1> DEFINE x == PlaceValue(n - 1)
<1>8. PlaceValue(m) <= x
  BY <1>6, <1>7
<1>9. x \in Nat /\ PlaceValue(n) = x * Radix
  BY <1>6, PlacesAre
<1> HIDE DEF x
<1>10. x <= x * Radix
  BY <1>1, <1>9
<1> QED BY <1>3, <1>4, <1>8, <1>9, <1>10, <1>1

\* The groups before a place count for less than it.
LEMMA SumsBelow ==
  ASSUME NEW input, NEW at, NEW size \in 1..Groups, NEW g, Sums(input, at, size, g),
         \A i \in 1..size : input[at + i - 1] \in Byte
  PROVE  \A n \in 0..size : g[n] \in Nat /\ g[n] < PlaceValue(n + 1)
<1> DEFINE Good(n) == g[n] \in Nat /\ g[n] < PlaceValue(n + 1)
           Bad == {n \in 0..size : ~Good(n)}
<1> SUFFICES ASSUME Bad # {} PROVE FALSE
  OBVIOUS
<1>1. Groups \in Nat /\ size \in Nat /\ Radix \in Nat \ {0}
  BY WidthsAre, PlacesAre
<1>2. PICK n \in Bad : \A j \in Bad : n <= j
  <2>1. Bad \in SUBSET Nat
    BY <1>1
  <2> HIDE DEF Bad
  <2> QED BY <2>1, NatMin
<1>3. n \in 0..size /\ ~Good(n)
  BY <1>2
<1>4. CASE n = 0
  <2>1. g[0] = 0 /\ PlaceValue(1) = 1 /\ 0 + 1 = 1
    BY PlacesAre DEF Sums
  <2> QED BY <2>1, <1>3, <1>4
<1>5. CASE n # 0
  <2>1. n \in 1..size /\ n \in 1..Groups /\ n - 1 \in 0..size /\ n - 1 < n /\ (n - 1) + 1 = n
    BY <1>1, <1>3, <1>5
  <2>2. n - 1 \notin Bad
    <3> HIDE DEF Bad
    <3> QED BY <2>1, <1>1, <1>2
  <2> DEFINE d == input[at + n - 1].payload
             x == PlaceValue(n)
             y == g[n - 1]
  <2>3. y \in Nat /\ y < x
    BY <2>1, <2>2
  <2>4. d \in Nat /\ d <= Radix - 1
    BY <2>1, <1>1 DEF Byte
  <2>5. x \in Nat /\ PlaceValue(n + 1) = x * Radix
    BY <2>1, PlacesAre
  <2>6. g[n] = y + d * x
    BY <2>1 DEF Sums
  <2> HIDE DEF d, x, y
  <2>7. g[n] \in Nat
    BY <2>3, <2>4, <2>5, <2>6
  <2>8. d * x <= (Radix - 1) * x
    BY <2>4, <2>5, <1>1
  <2>9. (Radix - 1) * x + x = x * Radix
    BY <2>5, <1>1
  <2>a. (Radix - 1) * x \in Nat /\ d * x \in Nat
    BY <2>4, <2>5, <1>1
  <2>10. y + d * x < x * Radix
    BY <2>3, <2>5, <2>8, <2>9, <2>a
  <2> QED BY <2>5, <2>6, <2>7, <2>10, <1>3
<1> QED BY <1>4, <1>5

\* Shifting an integer gives the groups, the sums being what was shifted out.
GroupsAre(v, input, at, size, g) ==
  /\ Shifted(v, size) = 0
  /\ \A n \in 1..size :
       /\ input[at + n - 1].payload = Shifted(v, n - 1) % Radix
       /\ v = Shifted(v, n - 1) * PlaceValue(n) + g[n - 1]
       /\ Shifted(v, n - 1) = Shifted(v, n) * Radix + input[at + n - 1].payload

LEMMA ShiftedSums ==
  ASSUME NEW input, NEW at, NEW size \in 1..Groups, NEW g, Sums(input, at, size, g),
         \A i \in 1..size : input[at + i - 1] \in Byte
  PROVE  GroupsAre(g[size], input, at, size, g)
<1> DEFINE v == g[size]
           Low(n) == v = Shifted(v, n) * PlaceValue(n + 1) + g[n]
           D(n) == input[at + n - 1].payload
<1>1. Groups \in Nat /\ size \in Nat /\ Radix \in Nat \ {0}
  BY WidthsAre, PlacesAre
<1>2. \A n \in 0..size : g[n] \in Nat /\ g[n] < PlaceValue(n + 1)
  BY SumsBelow
<1>3. v \in Nat /\ size \in 0..size
  BY <1>1, <1>2
<1>4. Shifted(v, size) = 0 /\ Low(size)
  <2> DEFINE x == PlaceValue(size + 1)
  <2>1. v < x /\ Shifted(v, size) = v \div x
    BY <1>2, <1>3 DEF Shifted
  <2>2. x \in Nat
    <3>1. PlaceValue(size) \in Nat /\ x = PlaceValue(size) * Radix
      BY PlacesAre
    <3> QED BY <3>1, <1>1
  <2> HIDE DEF x, v
  <2>3. Shifted(v, size) = 0
    BY <2>1, <2>2, <1>3
  <2>4. v = 0 * x + v
    BY <2>2, <1>3
  <2> QED BY <2>3, <2>4 DEF x, v
<1> HIDE DEF v
<1>5. ASSUME NEW n \in 1..size, Low(n)
      PROVE  Low(n - 1) /\ Shifted(v, n - 1) = Shifted(v, n) * Radix + D(n)
             /\ D(n) = Shifted(v, n - 1) % Radix
  <2> DEFINE x == PlaceValue(n)
             t == Shifted(v, n)
             d == D(n)
             y == g[n - 1]
             s == t * Radix + d
  <2>1. n \in 1..Groups /\ n \in 0..Groups /\ n - 1 \in 0..size /\ (n - 1) + 1 = n
    BY <1>1
  <2>2. x \in Nat \ {0} /\ PlaceValue(n + 1) = x * Radix
    BY <2>1, PlacesAre
  <2>3. y \in Nat /\ y < x
    BY <2>1, <1>2
  <2>4. t \in Nat
    BY <2>1, <1>3, ShiftIs
  <2>5. d \in Nat /\ d < Radix
    BY <1>1 DEF Byte
  <2>6. g[n] = y + d * x
    BY DEF Sums
  <2>7. v = t * (x * Radix) + g[n]
    BY <2>2, <1>5
  <2>8. Shifted(v, n - 1) = v \div x
    BY <2>1 DEF Shifted
  <2> HIDE DEF x, t, d, y
  <2>9. v = s * x + y
    BY <2>2, <2>3, <2>4, <2>5, <2>6, <2>7, <1>1
  <2>10. s \in Nat
    BY <2>4, <2>5, <1>1
  <2>11. s % Radix = d
    BY <2>4, <2>5, <1>1, QuotientIs
  <2> HIDE DEF s
  <2>12. v \div x = s
    BY <2>2, <2>3, <2>9, <2>10, QuotientIs
  <2>13. Shifted(v, n - 1) = s
    BY <2>8, <2>12
  <2>14. Low(n - 1)
    BY <2>1, <2>9, <2>13 DEF x, y
  <2> QED BY <2>11, <2>13, <2>14 DEF s, t, d
<1>6. \A n \in 0..size : Low(n)
  <2> DEFINE Bad == {n \in 0..size : ~Low(n)}
  <2> SUFFICES ASSUME Bad # {} PROVE FALSE
    OBVIOUS
  <2>1. PICK n \in Bad : \A j \in Bad : j <= n
    <3>1. Bad \in SUBSET Nat /\ \A j \in Bad : j <= size
      BY <1>1
    <3> HIDE DEF Bad
    <3> QED BY <3>1, <1>1, NatMax
  <2>2. n \in 0..size /\ ~Low(n)
    BY <2>1
  <2>3. n # size
    BY <2>2, <1>4
  <2>4. n + 1 \in 1..size /\ n + 1 \in 0..size /\ (n + 1) - 1 = n /\ ~(n + 1 <= n)
    BY <2>2, <2>3, <1>1
  <2>5. n + 1 \notin Bad
    <3> HIDE DEF Bad
    <3> QED BY <2>1, <2>4
  <2>6. Low(n + 1)
    BY <2>4, <2>5
  <2>7. Low((n + 1) - 1)
    <3> HIDE DEF Low
    <3> QED BY <2>4, <2>6, <1>5
  <2> QED BY <2>2, <2>4, <2>7
<1>7. ASSUME NEW n \in 1..size
      PROVE  /\ D(n) = Shifted(v, n - 1) % Radix
             /\ v = Shifted(v, n - 1) * PlaceValue(n) + g[n - 1]
             /\ Shifted(v, n - 1) = Shifted(v, n) * Radix + D(n)
  <2>1. n \in 0..size /\ n - 1 \in 0..size /\ (n - 1) + 1 = n
    BY <1>1
  <2>2. Low(n) /\ Low(n - 1)
    BY <2>1, <1>6
  <2>3. v = Shifted(v, n - 1) * PlaceValue(n) + g[n - 1]
    BY <2>1, <2>2
  <2> HIDE DEF Low
  <2> QED BY <2>2, <2>3, <1>5
<1> QED BY <1>4, <1>7 DEF v, GroupsAre

\* There is one encoding.
LEMMA OneEncoding ==
  ASSUME NEW v \in 0..MaxValue, NEW size, NEW bytes, IsEncoding(v, bytes, size)
  PROVE  Encode(v) = bytes /\ Len(bytes) = size
<1> DEFINE e == Encode(v)
           n == Len(e)
<1>1. IsEncoding(v, e, n)
  BY EncodeIs
<1> HIDE DEF e, n
<1>2. Groups \in Nat
  BY WidthsAre
<1>3. size \in 1..Groups /\ n \in 1..Groups
  BY <1>1 DEF IsEncoding
<1>4. size \in Nat /\ n \in Nat
  BY <1>2, <1>3
<1>5. ~(n < size) /\ ~(size < n)
  <2>1. ASSUME n < size PROVE FALSE
    <3>1. n \in 1..(size - 1)
      BY <2>1, <1>3, <1>4
    <3> QED BY <3>1, <1>1 DEF IsEncoding
  <2>2. ASSUME size < n PROVE FALSE
    <3>1. size \in 1..(n - 1)
      BY <2>2, <1>3, <1>4
    <3> QED BY <3>1, <1>1 DEF IsEncoding
  <2> QED BY <2>1, <2>2
<1>6. n = size
  BY <1>4, <1>5
<1> QED BY <1>1, <1>6 DEF IsEncoding, e, n

\* What decode accepts is what encode writes for the integer that it returns:
\* an integer within its width, which has no other encoding; overlong, too
\* large and truncated ones are all refused, and nothing wraps around.
THEOREM IntegerCanonical ==
  ASSUME NEW input \in Seq(Byte), NEW at \in Nat \ {0}, ~Decode(input, at).failed
  PROVE  /\ Decode(input, at).value \in 0..MaxValue
         /\ At(input, at, Encode(Decode(input, at).value))
         /\ Decode(input, at).next = at + Len(Encode(Decode(input, at).value))
<1> DEFINE E == Ends(input, at)
           n == CHOOSE k \in E : \A m \in E : k <= m
           top == input[at + n - 1].payload
           v == Decode(input, at).value
<1>1. Refused.failed = TRUE
  BY DEF Refused
<1>2. /\ E # {} /\ ~(n = Groups /\ top > LastPayload) /\ ~(n > 1 /\ top = 0)
      /\ Decode(input, at) = [failed |-> FALSE, value |-> ValueOf(input, at, n), next |-> at + n]
  BY <1>1 DEF Decode
<1>3. v = ValueOf(input, at, n) /\ Decode(input, at).next = at + n
  BY <1>2
<1>4. Groups \in Nat \ {0} /\ Radix \in Nat \ {0} /\ MaxValue \in Nat /\ LastPayload \in Nat
  BY WidthsAre, PlacesAre
<1>5. E \in SUBSET Nat
  BY <1>4 DEF Ends
<1>6. \E k \in E : \A m \in E : k <= m
  <2> HIDE DEF E
  <2> QED BY <1>2, <1>5, NatMin
<1>7. n \in E /\ \A m \in E : n <= m
  <2> HIDE DEF E
  <2> QED BY <1>6
<1> HIDE DEF n, v
<1>8. n \in 1..Groups /\ n \in Nat /\ n \in 1..n /\ at + n - 1 <= Len(input)
  BY <1>4, <1>7 DEF Ends
<1>9. input[at + n - 1].last
  BY <1>7 DEF Ends
<1>10. Len(input) \in Nat /\ DOMAIN input = 1..Len(input)
       /\ \A i \in 1..Len(input) : input[i] \in Byte
  OBVIOUS
<1>11. \A i \in 1..n : at + i - 1 \in 1..Len(input) /\ i \in Nat /\ i \in 1..Groups
  BY <1>4, <1>8, <1>10
<1>12. \A i \in 1..n : input[at + i - 1] \in Byte
  BY <1>10, <1>11
<1>13. \A i \in 1..n : input[at + i - 1].last = (i = n)
  <2> TAKE i \in 1..n
  <2>1. input[at + i - 1].last \in BOOLEAN
    BY <1>12 DEF Byte
  <2>2. CASE i = n
    BY <2>1, <2>2, <1>9, Zenon
  <2>3. CASE i # n
    <3>1. ~(n <= i)
      BY <2>3, <1>8, <1>11
    <3>2. i \notin E
      BY <3>1, <1>7
    <3>3. at + i - 1 <= Len(input) /\ i \in 1..Groups
      BY <1>8, <1>11
    <3>4. ~input[at + i - 1].last
      BY <3>2, <3>3 DEF Ends
    <3> QED BY <2>1, <2>3, <3>4, Zenon
  <2> QED BY <2>2, <2>3
<1> HIDE DEF E
<1>14. PICK g : Sums(input, at, n, g) /\ v = g[n]
  BY <1>3, <1>8, ValueIs
<1>15. /\ Shifted(v, n) = 0
       /\ \A i \in 1..n :
            /\ input[at + i - 1].payload = Shifted(v, i - 1) % Radix
            /\ v = Shifted(v, i - 1) * PlaceValue(i) + g[i - 1]
            /\ Shifted(v, i - 1) = Shifted(v, i) * Radix + input[at + i - 1].payload
  <2>1. GroupsAre(g[n], input, at, n, g)
    BY <1>8, <1>12, <1>14, ShiftedSums
  <2>2. GroupsAre(v, input, at, n, g)
    BY <2>1, <1>14
  <2> QED BY <2>2 DEF GroupsAre
<1>16. \A i \in 0..n : g[i] \in Nat /\ g[i] < PlaceValue(i + 1)
  BY <1>8, <1>12, <1>14, SumsBelow
<1>17. v \in Nat
  <2>1. n \in 0..n
    BY <1>8
  <2> QED BY <2>1, <1>14, <1>16
<1>18. top \in Nat /\ Shifted(v, n - 1) = top
  <2>1. top \in Nat
    <3>1. input[at + n - 1] \in Byte
      BY <1>8, <1>12
    <3> QED BY <3>1, <1>4 DEF Byte
  <2>2. Shifted(v, n - 1) = 0 * Radix + top
    BY <1>8, <1>15
  <2> HIDE DEF top
  <2> QED BY <2>1, <2>2, <1>4
<1>19. v <= MaxValue
  <2> DEFINE x == PlaceValue(Groups)
  <2>1. x \in Nat \ {0} /\ MaxValue + 1 = (LastPayload + 1) * x
    BY <1>4, PlacesAre
  <2>2. CASE n = Groups
    <3> DEFINE y == g[n - 1]
    <3>1. n - 1 \in 0..n /\ (n - 1) + 1 = n
      BY <1>8
    <3>2. y \in Nat /\ y < x
      BY <3>1, <2>2, <1>16
    <3>3. v = top * x + y
      BY <2>2, <1>8, <1>15, <1>18
    <3>4. top <= LastPayload
      BY <2>2, <1>2, <1>4, <1>18
    <3> HIDE DEF x, y, top
    <3>5. top * x <= LastPayload * x
      BY <3>4, <2>1, <1>4, <1>18
    <3>6. (LastPayload + 1) * x = LastPayload * x + x
      BY <2>1, <1>4
    <3>7. top * x \in Nat /\ LastPayload * x \in Nat
      BY <2>1, <1>4, <1>18
    <3> QED BY <3>2, <3>3, <3>5, <3>6, <3>7, <2>1, <1>4
  <2>3. CASE n # Groups
    <3>1. n \in 0..n /\ n + 1 \in 1..Groups /\ Groups \in 1..Groups /\ n + 1 <= Groups
      BY <2>3, <1>4, <1>8
    <3> DEFINE y == PlaceValue(n + 1)
    <3>2. y \in Nat /\ y <= x
      BY <3>1, PlacesAre, PlacesGrow
    <3>3. v < y
      BY <3>1, <1>14, <1>16
    <3> HIDE DEF x, y
    <3>4. x <= (LastPayload + 1) * x
      BY <2>1, <1>4
    <3> QED BY <3>2, <3>3, <3>4, <2>1, <1>4, <1>17
  <2> QED BY <2>2, <2>3
<1>20. \A m \in 1..(n - 1) : Shifted(v, m) # 0
  <2> DEFINE Bad == {m \in 1..(n - 1) : Shifted(v, m) = 0}
  <2> SUFFICES ASSUME Bad # {} PROVE FALSE
    OBVIOUS
  <2>1. PICK m \in Bad : \A j \in Bad : j <= m
    <3>1. Bad \in SUBSET Nat /\ \A j \in Bad : j <= n
      BY <1>8
    <3> HIDE DEF Bad
    <3> QED BY <3>1, <1>8, NatMax
  <2>2. m \in 1..(n - 1) /\ Shifted(v, m) = 0 /\ m \in Nat
    BY <2>1, <1>8
  <2>3. m # n - 1
    BY <2>2, <1>2, <1>8, <1>18
  <2>4. m + 1 \in 1..(n - 1) /\ ~(m + 1 <= m) /\ m + 1 \in 1..n /\ (m + 1) - 1 = m
        /\ m + 1 \in 0..Groups
    BY <2>2, <2>3, <1>4, <1>8
  <2>5. Shifted(v, m + 1) # 0
    <3>1. m + 1 \notin Bad
      <4> HIDE DEF Bad
      <4> QED BY <2>1, <2>4
    <3> QED BY <3>1, <2>4
  <2> DEFINE s == Shifted(v, m + 1)
             d == input[at + (m + 1) - 1].payload
  <2>6. s \in Nat
    BY <2>4, <1>17, ShiftIs
  <2>7. Shifted(v, (m + 1) - 1) = s * Radix + d
    BY <2>4, <1>15
  <2>8. d \in Nat
    BY <2>4, <1>4, <1>12 DEF Byte
  <2>9. s * Radix + d # 0
    <3>1. s # 0
      BY <2>5
    <3> HIDE DEF s, d
    <3> QED BY <3>1, <2>6, <2>8, <1>4
  <2> QED BY <2>2, <2>4, <2>7, <2>9
<1> DEFINE bytes == [i \in 1..n |-> [payload |-> Shifted(v, i - 1) % Radix, last |-> i = n]]
<1>21. IsEncoding(v, bytes, n)
  BY <1>8, <1>15, <1>20 DEF IsEncoding
<1>22. \A i \in 1..n : input[at + i - 1] = bytes[i]
  <2> TAKE i \in 1..n
  <2> DEFINE b == input[at + i - 1]
             l == (i = n)
  <2>1. b.payload = Shifted(v, i - 1) % Radix /\ b.last = l /\ b \in Byte
    BY <1>12, <1>13, <1>15
  <2>2. bytes[i] = [payload |-> Shifted(v, i - 1) % Radix, last |-> l]
    OBVIOUS
  <2> HIDE DEF b, l, bytes
  <2>3. b = [payload |-> b.payload, last |-> b.last]
    BY <2>1 DEF Byte
  <2>4. b = bytes[i]
    BY <2>1, <2>2, <2>3
  <2> QED BY <2>4 DEF b
<1> HIDE DEF bytes
<1>23. v \in 0..MaxValue
  BY <1>4, <1>17, <1>19
<1>24. Encode(v) = bytes /\ Len(bytes) = n
  BY <1>21, <1>23, OneEncoding
<1>25. At(input, at, Encode(v))
  BY <1>8, <1>10, <1>22, <1>24 DEF At
<1> QED BY <1>3, <1>23, <1>24, <1>25 DEF v

-----------------------------------------------------------------------------
(* Lists of differences                                                    *)

\* The bytes of the first values of a list, one value after the other.
DeltasRuns(values, m, g) ==
  /\ g = [i \in 0..m |-> g[i]]
  /\ g[0] = <<>>
  /\ \A i \in 1..m : g[i] = g[i - 1] \o Encode(Minus(values[i], Before(values, i)))

LEMMA DeltasRunsExist ==
  ASSUME NEW values, NEW m \in Nat
  PROVE  \E g : DeltasRuns(values, m, g)
<1> DEFINE Has(n) == \E g : DeltasRuns(values, n, g)
           Bad == {n \in Nat : ~Has(n)}
<1> SUFFICES ASSUME Bad # {} PROVE FALSE
  OBVIOUS
<1>1. PICK n \in Bad : \A j \in Bad : n <= j
  <2>1. Bad \in SUBSET Nat
    OBVIOUS
  <2> HIDE DEF Bad
  <2> QED BY <2>1, NatMin
<1>2. n \in Nat /\ ~Has(n)
  BY <1>1
<1>3. CASE n = 0
  <2> DEFINE g == [i \in 0..0 |-> <<>>]
  <2>1. g = [i \in 0..0 |-> g[i]] /\ g[0] = <<>> /\ 1..0 = {}
    OBVIOUS
  <2> HIDE DEF g
  <2>2. DeltasRuns(values, 0, g)
    BY <2>1 DEF DeltasRuns
  <2> QED BY <2>2, <1>2, <1>3
<1>4. CASE n # 0
  <2>1. n - 1 \in Nat /\ n - 1 < n
    BY <1>2, <1>4
  <2>2. n - 1 \notin Bad
    <3> HIDE DEF Bad
    <3> QED BY <2>1, <1>1, <1>2
  <2>3. PICK f : DeltasRuns(values, n - 1, f)
    BY <2>1, <2>2
  <2>4. f[0] = <<>> /\ \A i \in 1..(n - 1) : f[i] = f[i - 1] \o Encode(Minus(values[i], Before(values, i)))
    BY <2>3 DEF DeltasRuns
  <2> DEFINE T(i, before) == before \o Encode(Minus(values[i], Before(values, i)))
             g == [i \in 0..n |-> IF i = n THEN T(n, f[n - 1]) ELSE f[i]]
  <2>5. g = [i \in 0..n |-> g[i]]
    OBVIOUS
  <2>6. \A i \in 1..(n - 1) : f[i] = T(i, f[i - 1])
    BY <2>4
  <2> HIDE DEF T
  <2>7. /\ \A i \in 0..(n - 1) : g[i] = f[i]
        /\ g[n] = T(n, f[n - 1])
    BY <1>2
  <2> HIDE DEF g
  <2>8. \A i \in 1..n : /\ i - 1 \in 0..(n - 1)
                        /\ i # n => i \in 1..(n - 1) /\ i \in 0..(n - 1)
    BY <1>2
  <2>9. g[0] = <<>>
    <3>1. 0 \in 0..(n - 1)
      BY <2>1
    <3> QED BY <3>1, <2>4, <2>7
  <2>10. \A i \in 1..n : g[i] = T(i, g[i - 1])
    <3> TAKE i \in 1..n
    <3>1. g[i - 1] = f[i - 1]
      BY <2>7, <2>8
    <3>2. CASE i = n
      BY <3>1, <3>2, <2>7
    <3>3. CASE i # n
      <4>1. g[i] = f[i]
        BY <3>3, <2>7, <2>8
      <4>2. f[i] = T(i, f[i - 1])
        BY <3>3, <2>6, <2>8
      <4> QED BY <3>1, <4>1, <4>2
    <3> QED BY <3>2, <3>3
  <2>11. DeltasRuns(values, n, g)
    BY <2>5, <2>9, <2>10 DEF DeltasRuns, T
  <2> QED BY <2>11, <1>2
<1> QED BY <1>3, <1>4

LEMMA DeltasIs ==
  ASSUME NEW values, Len(values) \in Nat
  PROVE  \E g : DeltasRuns(values, Len(values), g) /\ Deltas(values) = g[Len(values)]
<1> DEFINE m == Len(values)
           T(i, before) == before \o Encode(Minus(values[i], Before(values, i)))
           F(g) == [n \in 0..m |-> IF n = 0 THEN <<>> ELSE T(n, g[n - 1])]
           run == CHOOSE g : g = F(g)
<1>1. Deltas(values) = run[m]
  BY DEF Deltas
<1>2. m \in Nat
  OBVIOUS
<1> HIDE DEF m
<1>3. PICK h : DeltasRuns(values, m, h)
  BY <1>2, DeltasRunsExist
<1>4. h = [n \in 0..m |-> h[n]] /\ h[0] = <<>> /\ \A n \in 1..m : h[n] = T(n, h[n - 1])
  BY <1>3 DEF DeltasRuns
<1> HIDE DEF T
<1>5. h = F(h)
  <2>1. \A n \in 0..m : n # 0 => n \in 1..m
    BY <1>2
  <2>2. \A n \in 0..m : h[n] = IF n = 0 THEN <<>> ELSE T(n, h[n - 1])
    BY <2>1, <1>4
  <2>3. [n \in 0..m |-> h[n]] = F(h)
    BY <2>2
  <2> QED BY <2>3, <1>4
<1>6. run = F(run)
  <2> HIDE DEF F
  <2> QED BY <1>5
<1> HIDE DEF run
<1>7. DeltasRuns(values, m, run)
  <2>1. /\ \A n \in 0..m : F(run)[n] = IF n = 0 THEN <<>> ELSE T(n, run[n - 1])
        /\ F(run) = [n \in 0..m |-> F(run)[n]]
    OBVIOUS
  <2> HIDE DEF F
  <2>2. /\ run = [n \in 0..m |-> run[n]]
        /\ \A n \in 0..m : run[n] = IF n = 0 THEN <<>> ELSE T(n, run[n - 1])
    BY <2>1, <1>6
  <2>3. 0 \in 0..m /\ \A n \in 1..m : n \in 0..m /\ n # 0
    BY <1>2
  <2>4. run[0] = <<>> /\ \A n \in 1..m : run[n] = T(n, run[n - 1])
    BY <2>2, <2>3
  <2> QED BY <2>2, <2>4 DEF DeltasRuns, T
<1> QED BY <1>1, <1>7 DEF m

StartAt(at) == [failed |-> FALSE, values |-> <<>>, next |-> at]

\* What is read of the first values.
ReadDeltasRuns(input, at, zeroFirst, m, g) ==
  /\ g = [i \in 0..m |-> g[i]]
  /\ g[0] = StartAt(at)
  /\ \A i \in 1..m : g[i] = ReadDelta(input, g[i - 1], zeroFirst)

LEMMA ReadDeltasRunsExist ==
  ASSUME NEW input, NEW at, NEW zeroFirst, NEW m \in Nat
  PROVE  \E g : ReadDeltasRuns(input, at, zeroFirst, m, g)
<1> DEFINE Has(n) == \E g : ReadDeltasRuns(input, at, zeroFirst, n, g)
           Bad == {n \in Nat : ~Has(n)}
<1> SUFFICES ASSUME Bad # {} PROVE FALSE
  OBVIOUS
<1>1. PICK n \in Bad : \A j \in Bad : n <= j
  <2>1. Bad \in SUBSET Nat
    OBVIOUS
  <2> HIDE DEF Bad
  <2> QED BY <2>1, NatMin
<1>2. n \in Nat /\ ~Has(n)
  BY <1>1
<1>3. CASE n = 0
  <2> DEFINE g == [i \in 0..0 |-> StartAt(at)]
  <2>1. g = [i \in 0..0 |-> g[i]] /\ g[0] = StartAt(at) /\ 1..0 = {}
    OBVIOUS
  <2> HIDE DEF g
  <2>2. ReadDeltasRuns(input, at, zeroFirst, 0, g)
    BY <2>1 DEF ReadDeltasRuns
  <2> QED BY <2>2, <1>2, <1>3
<1>4. CASE n # 0
  <2>1. n - 1 \in Nat /\ n - 1 < n
    BY <1>2, <1>4
  <2>2. n - 1 \notin Bad
    <3> HIDE DEF Bad
    <3> QED BY <2>1, <1>1, <1>2
  <2>3. PICK f : ReadDeltasRuns(input, at, zeroFirst, n - 1, f)
    BY <2>1, <2>2
  <2>4. f[0] = StartAt(at) /\ \A i \in 1..(n - 1) : f[i] = ReadDelta(input, f[i - 1], zeroFirst)
    BY <2>3 DEF ReadDeltasRuns
  <2> DEFINE T(i, before) == ReadDelta(input, before, zeroFirst)
             g == [i \in 0..n |-> IF i = n THEN T(n, f[n - 1]) ELSE f[i]]
  <2>5. g = [i \in 0..n |-> g[i]]
    OBVIOUS
  <2>6. \A i \in 1..(n - 1) : f[i] = T(i, f[i - 1])
    BY <2>4
  <2> HIDE DEF T
  <2>7. /\ \A i \in 0..(n - 1) : g[i] = f[i]
        /\ g[n] = T(n, f[n - 1])
    BY <1>2
  <2> HIDE DEF g
  <2>8. \A i \in 1..n : /\ i - 1 \in 0..(n - 1)
                        /\ i # n => i \in 1..(n - 1) /\ i \in 0..(n - 1)
    BY <1>2
  <2>9. g[0] = StartAt(at)
    <3>1. 0 \in 0..(n - 1)
      BY <2>1
    <3> QED BY <3>1, <2>4, <2>7
  <2>10. \A i \in 1..n : g[i] = T(i, g[i - 1])
    <3> TAKE i \in 1..n
    <3>1. g[i - 1] = f[i - 1]
      BY <2>7, <2>8
    <3>2. CASE i = n
      BY <3>1, <3>2, <2>7
    <3>3. CASE i # n
      <4>1. g[i] = f[i]
        BY <3>3, <2>7, <2>8
      <4>2. f[i] = T(i, f[i - 1])
        BY <3>3, <2>6, <2>8
      <4> QED BY <3>1, <4>1, <4>2
    <3> QED BY <3>2, <3>3
  <2>11. ReadDeltasRuns(input, at, zeroFirst, n, g)
    BY <2>5, <2>9, <2>10 DEF ReadDeltasRuns, T
  <2> QED BY <2>11, <1>2
<1> QED BY <1>3, <1>4

LEMMA ReadDeltasIs ==
  ASSUME NEW input, NEW at, NEW zeroFirst, NEW m, m \in Nat
  PROVE  \E g : ReadDeltasRuns(input, at, zeroFirst, m, g) /\ ReadDeltas(input, at, m, zeroFirst) = g[m]
<1> DEFINE T(i, before) == ReadDelta(input, before, zeroFirst)
           F(g) == [n \in 0..m |-> IF n = 0 THEN StartAt(at) ELSE T(n, g[n - 1])]
           run == CHOOSE g : g = F(g)
<1>1. ReadDeltas(input, at, m, zeroFirst) = run[m]
  BY DEF ReadDeltas, StartAt
<1>2. m \in Nat
  OBVIOUS
<1>3. PICK h : ReadDeltasRuns(input, at, zeroFirst, m, h)
  BY <1>2, ReadDeltasRunsExist
<1>4. h = [n \in 0..m |-> h[n]] /\ h[0] = StartAt(at) /\ \A n \in 1..m : h[n] = T(n, h[n - 1])
  BY <1>3 DEF ReadDeltasRuns
<1> HIDE DEF T
<1>5. h = F(h)
  <2>1. \A n \in 0..m : n # 0 => n \in 1..m
    BY <1>2
  <2>2. \A n \in 0..m : h[n] = IF n = 0 THEN StartAt(at) ELSE T(n, h[n - 1])
    BY <2>1, <1>4
  <2>3. [n \in 0..m |-> h[n]] = F(h)
    BY <2>2
  <2> QED BY <2>3, <1>4
<1>6. run = F(run)
  <2> HIDE DEF F
  <2> QED BY <1>5
<1> HIDE DEF run
<1>7. ReadDeltasRuns(input, at, zeroFirst, m, run)
  <2>1. /\ \A n \in 0..m : F(run)[n] = IF n = 0 THEN StartAt(at) ELSE T(n, run[n - 1])
        /\ F(run) = [n \in 0..m |-> F(run)[n]]
    OBVIOUS
  <2> HIDE DEF F
  <2>2. /\ run = [n \in 0..m |-> run[n]]
        /\ \A n \in 0..m : run[n] = IF n = 0 THEN StartAt(at) ELSE T(n, run[n - 1])
    BY <2>1, <1>6
  <2>3. 0 \in 0..m /\ \A n \in 1..m : n \in 0..m /\ n # 0
    BY <1>2
  <2>4. run[0] = StartAt(at) /\ \A n \in 1..m : run[n] = T(n, run[n - 1])
    BY <2>2, <2>3
  <2> QED BY <2>2, <2>4 DEF ReadDeltasRuns, T
<1> QED BY <1>1, <1>7

LEMMA ReadDeltasAgree ==
  ASSUME NEW input, NEW at, NEW zeroFirst, NEW m \in Nat, NEW g, ReadDeltasRuns(input, at, zeroFirst, m, g),
         NEW n \in Nat, m <= n, NEW h, ReadDeltasRuns(input, at, zeroFirst, n, h)
  PROVE  g[m] = h[m]
<1> DEFINE Bad == {i \in 0..m : g[i] # h[i]}
           T(i, before) == ReadDelta(input, before, zeroFirst)
<1>1. Bad = {}
  <2> SUFFICES ASSUME Bad # {} PROVE FALSE
    OBVIOUS
  <2>1. PICK i \in Bad : \A j \in Bad : i <= j
    <3>1. Bad \in SUBSET Nat
      OBVIOUS
    <3> HIDE DEF Bad
    <3> QED BY <3>1, NatMin
  <2>2. i \in 0..m /\ g[i] # h[i]
    BY <2>1
  <2>3. i # 0
    BY <2>2 DEF ReadDeltasRuns
  <2>4. i \in 1..m /\ i \in 1..n /\ i - 1 \in 0..m /\ ~(i <= i - 1)
    BY <2>2, <2>3
  <2>5. i - 1 \notin Bad
    <3> HIDE DEF Bad
    <3> QED BY <2>1, <2>4
  <2>6. g[i - 1] = h[i - 1]
    BY <2>4, <2>5
  <2>7. g[i] = T(i, g[i - 1]) /\ h[i] = T(i, h[i - 1])
    BY <2>4 DEF ReadDeltasRuns
  <2> HIDE DEF T
  <2> QED BY <2>2, <2>6, <2>7
<1>2. m \in 0..m
  OBVIOUS
<1> QED BY <1>1, <1>2

\* The first elements of a list.
First(list, n) == [i \in 1..n |-> list[i]]

LEMMA FirstIs ==
  ASSUME NEW S, NEW list \in Seq(S), NEW n \in 1..Len(list)
  PROVE  /\ First(list, n) = Append(First(list, n - 1), list[n])
         /\ First(list, n - 1) \in Seq(S) /\ Len(First(list, n - 1)) = n - 1
         /\ list[n] \in S
<1>1. Len(list) \in Nat /\ n \in Nat /\ n - 1 \in Nat /\ list \in [1..Len(list) -> S]
  OBVIOUS
<1>2. First(list, n - 1) \in [1..(n - 1) -> S]
  BY <1>1 DEF First
<1> DEFINE f == First(list, n - 1)
           g == First(list, n)
<1>3. f \in Seq(S) /\ Len(f) = n - 1
  BY <1>1, <1>2
<1>4. g = [i \in 1..n |-> list[i]] /\ \A i \in 1..(n - 1) : f[i] = list[i]
  BY DEF First
<1> HIDE DEF f, g
<1>5. Append(f, list[n]) = [i \in 1..n |-> IF i = n THEN list[n] ELSE f[i]]
  BY <1>1, <1>3
<1>6. \A i \in 1..n : list[i] = IF i = n THEN list[n] ELSE f[i]
  <2> TAKE i \in 1..n
  <2>1. CASE i # n
    <3>1. i \in 1..(n - 1)
      BY <2>1, <1>1
    <3> QED BY <3>1, <2>1, <1>4
  <2> QED BY <2>1
<1>7. g = Append(f, list[n])
  BY <1>4, <1>5, <1>6
<1> QED BY <1>1, <1>3, <1>7 DEF f, g

LEMMA FirstAll ==
  ASSUME NEW S, NEW list \in Seq(S)
  PROVE  First(list, Len(list)) = list /\ First(list, 0) = <<>> /\ Len(list) \in Nat
<1>1. Len(list) \in Nat /\ list \in [1..Len(list) -> S]
  OBVIOUS
<1>2. First(list, Len(list)) = list
  BY <1>1 DEF First
<1>3. First(list, 0) = <<>>
  BY DEF First
<1> QED BY <1>1, <1>2, <1>3

LEMMA DeltasFirst == Deltas(<<>>) = <<>>
<1>1. Len(<<>>) = 0 /\ 0 \in Nat
  OBVIOUS
<1>2. PICK g : DeltasRuns(<<>>, Len(<<>>), g) /\ Deltas(<<>>) = g[Len(<<>>)]
  BY <1>1, DeltasIs
<1> QED BY <1>1, <1>2 DEF DeltasRuns

LEMMA DeltasNext ==
  ASSUME NEW S, NEW values \in Seq(S), NEW x \in S
  PROVE  Deltas(Append(values, x)) =
           Deltas(values) \o Encode(Minus(x, Before(values, Len(values) + 1)))
<1> DEFINE n == Len(values)
           more == Append(values, x)
<1>1. n \in Nat /\ Len(more) = n + 1 /\ more[n + 1] = x /\ \A i \in 1..n : more[i] = values[i]
  OBVIOUS
<1>2. PICK g : DeltasRuns(values, n, g) /\ Deltas(values) = g[n]
  BY <1>1, DeltasIs
<1>3. PICK h : DeltasRuns(more, n + 1, h) /\ Deltas(more) = h[n + 1]
  <2>1. \E h : DeltasRuns(more, Len(more), h) /\ Deltas(more) = h[Len(more)]
    <3>1. Len(more) \in Nat
      BY <1>1
    <3> HIDE DEF more
    <3> QED BY <3>1, DeltasIs
  <2> QED BY <2>1, <1>1
<1> HIDE DEF n, more
<1>4. \A i \in 1..n : Before(more, i) = Before(values, i)
  <2> TAKE i \in 1..n
  <2>1. CASE i = 1
    BY <2>1 DEF Before
  <2>2. CASE i # 1
    <3>1. i - 1 \in 1..n
      BY <2>2, <1>1
    <3> QED BY <3>1, <2>2, <1>1 DEF Before
  <2> QED BY <2>1, <2>2
<1>5. Before(more, n + 1) = Before(values, n + 1)
  <2>1. CASE n = 0
    BY <2>1 DEF Before
  <2>2. CASE n # 0
    <3>1. (n + 1) - 1 = n /\ n \in 1..n /\ n + 1 # 1
      BY <2>2, <1>1
    <3> QED BY <3>1, <1>1 DEF Before
  <2> QED BY <2>1, <2>2
<1> DEFINE T(i) == Encode(Minus(values[i], Before(values, i)))
           Bad == {i \in 0..n : g[i] # h[i]}
<1>6. Bad = {}
  <2> SUFFICES ASSUME Bad # {} PROVE FALSE
    OBVIOUS
  <2>1. PICK i \in Bad : \A j \in Bad : i <= j
    <3>1. Bad \in SUBSET Nat
      BY <1>1
    <3> HIDE DEF Bad
    <3> QED BY <3>1, NatMin
  <2>2. i \in 0..n /\ g[i] # h[i]
    BY <2>1
  <2>3. i # 0
    BY <2>2, <1>2, <1>3 DEF DeltasRuns
  <2>4. i \in 1..n /\ i \in 1..(n + 1) /\ i - 1 \in 0..n /\ ~(i <= i - 1)
    BY <2>2, <2>3, <1>1
  <2>5. i - 1 \notin Bad
    <3> HIDE DEF Bad
    <3> QED BY <2>1, <2>4
  <2>6. g[i - 1] = h[i - 1]
    BY <2>4, <2>5
  <2>7. g[i] = g[i - 1] \o T(i)
    BY <2>4, <1>2 DEF DeltasRuns
  <2>8. h[i] = h[i - 1] \o T(i)
    BY <2>4, <1>1, <1>3, <1>4 DEF DeltasRuns
  <2> HIDE DEF T
  <2> QED BY <2>2, <2>6, <2>7, <2>8
<1>7. g[n] = h[n]
  <2>1. n \in 0..n
    BY <1>1
  <2> QED BY <2>1, <1>6
<1>8. h[n + 1] = h[n] \o Encode(Minus(x, Before(values, n + 1)))
  <2>1. n + 1 \in 1..(n + 1) /\ (n + 1) - 1 = n
    BY <1>1
  <2> QED BY <2>1, <1>1, <1>3, <1>5 DEF DeltasRuns
<1> QED BY <1>2, <1>3, <1>7, <1>8 DEF n, more

LEMMA ReadDeltasNext ==
  ASSUME NEW input, NEW at, NEW zeroFirst, NEW n \in Nat
  PROVE  /\ ReadDeltas(input, at, 0, zeroFirst) = StartAt(at)
         /\ ReadDeltas(input, at, n + 1, zeroFirst) =
              ReadDelta(input, ReadDeltas(input, at, n, zeroFirst), zeroFirst)
<1>1. PICK f : ReadDeltasRuns(input, at, zeroFirst, 0, f)
                 /\ ReadDeltas(input, at, 0, zeroFirst) = f[0]
  <2>1. 0 \in Nat
    OBVIOUS
  <2> QED BY <2>1, ReadDeltasIs
<1>2. PICK g : ReadDeltasRuns(input, at, zeroFirst, n, g)
                 /\ ReadDeltas(input, at, n, zeroFirst) = g[n]
  BY ReadDeltasIs
<1>3. n + 1 \in Nat /\ n <= n + 1 /\ n + 1 \in 1..(n + 1) /\ (n + 1) - 1 = n
  OBVIOUS
<1> DEFINE k == n + 1
<1> HIDE DEF k
<1>4. PICK h : ReadDeltasRuns(input, at, zeroFirst, k, h)
                 /\ ReadDeltas(input, at, k, zeroFirst) = h[k]
  BY <1>3, ReadDeltasIs DEF k
<1>5. g[n] = h[n]
  BY <1>2, <1>3, <1>4, ReadDeltasAgree DEF k
<1>6. h[k] = ReadDelta(input, h[n], zeroFirst)
  BY <1>3, <1>4 DEF ReadDeltasRuns, k
<1>7. f[0] = StartAt(at)
  BY <1>1 DEF ReadDeltasRuns
<1> QED BY <1>1, <1>2, <1>4, <1>5, <1>6, <1>7 DEF k

\* The bytes of an integer are bytes.
LEMMA EncodeBytes ==
  ASSUME NEW v \in 0..MaxValue
  PROVE  Encode(v) \in Seq(Byte) /\ Len(Encode(v)) \in Nat \ {0}
<1> DEFINE e == Encode(v)
           n == Len(e)
<1>1. IsEncoding(v, e, n)
  BY EncodeIs
<1>2. v \in Nat /\ Groups \in Nat \ {0} /\ Radix \in Nat \ {0}
  BY WidthsAre, PlacesAre
<1> HIDE DEF e, n
<1>3. n \in Nat \ {0} /\ n \in 1..Groups
  BY <1>1, <1>2 DEF IsEncoding
<1>4. \A i \in 1..n : Shifted(v, i - 1) % Radix \in 0..(Radix - 1)
  <2> TAKE i \in 1..n
  <2>1. i \in 1..Groups
    BY <1>2, <1>3
  <2> DEFINE d == Shifted(v, i - 1) % Radix
  <2>2. d \in Nat /\ d < Radix
    BY <2>1, <1>2, ShiftIs
  <2> HIDE DEF d
  <2>3. d \in 0..(Radix - 1)
    BY <2>2, <1>2
  <2> QED BY <2>3 DEF d
<1> DEFINE G(i) == Shifted(v, i - 1) % Radix
           L(i) == i = n
<1>5. e = [i \in 1..n |-> [payload |-> G(i), last |-> L(i)]]
  BY <1>1 DEF IsEncoding
<1>6. \A i \in 1..n : G(i) \in 0..(Radix - 1)
  BY <1>4
<1>7. \A i : L(i) \in BOOLEAN
  OBVIOUS
<1> HIDE DEF G, L
<1>8. \A i \in 1..n : [payload |-> G(i), last |-> L(i)] \in Byte
  BY <1>6, <1>7 DEF Byte
<1>9. e \in [1..n -> Byte]
  BY <1>5, <1>8
<1>10. e \in Seq(Byte)
  BY <1>3, <1>9
<1> QED BY <1>3, <1>10 DEF e, n

\* Two pieces, one after the other.
LEMMA AtBoth ==
  ASSUME NEW input \in Seq(Byte), NEW at \in Nat \ {0}, NEW a \in Seq(Byte), NEW b \in Seq(Byte)
  PROVE  /\ At(input, at, a \o b) <=> At(input, at, a) /\ At(input, at + Len(a), b)
         /\ a \o b \in Seq(Byte) /\ Len(a \o b) = Len(a) + Len(b) /\ at + Len(a) \in Nat \ {0}
<1> DEFINE c == a \o b
           m == Len(a)
           n == Len(b)
           k == Len(input)
<1>1. /\ c \in Seq(Byte) /\ Len(c) = m + n /\ m \in Nat /\ n \in Nat /\ k \in Nat
      /\ at + m \in Nat \ {0}
      /\ \A i \in 1..(m + n) : c[i] = IF i <= m THEN a[i] ELSE b[i - m]
  OBVIOUS
<1> HIDE DEF c, m, n, k
<1>2. At(input, at, c) <=> /\ at + (m + n) <= k + 1
                           /\ \A i \in 1..(m + n) : input[at + i - 1] = c[i]
  BY <1>1 DEF At, k
<1>3. At(input, at, a) <=> /\ at + m <= k + 1
                           /\ \A i \in 1..m : input[at + i - 1] = a[i]
  BY <1>1 DEF At, m, k
<1>4. At(input, at + m, b) <=> /\ (at + m) + n <= k + 1
                               /\ \A i \in 1..n : input[(at + m) + i - 1] = b[i]
  BY <1>1 DEF At, n, k
<1>5. at + (m + n) = (at + m) + n /\ (at + (m + n) <= k + 1 => at + m <= k + 1)
  BY <1>1
<1>6. ASSUME \A i \in 1..(m + n) : input[at + i - 1] = c[i]
      PROVE  /\ \A i \in 1..m : input[at + i - 1] = a[i]
             /\ \A i \in 1..n : input[(at + m) + i - 1] = b[i]
  <2>1. \A i \in 1..m : i \in 1..(m + n) /\ i <= m
    BY <1>1
  <2>2. ASSUME NEW i \in 1..n PROVE input[(at + m) + i - 1] = b[i]
    <3>1. m + i \in 1..(m + n) /\ ~(m + i <= m) /\ (m + i) - m = i
          /\ (at + m) + i - 1 = at + (m + i) - 1
      BY <1>1
    <3>2. c[m + i] = b[i]
      BY <3>1, <1>1
    <3>3. input[at + (m + i) - 1] = c[m + i]
      BY <3>1, <1>6
    <3> QED BY <3>1, <3>2, <3>3
  <2> QED BY <2>1, <2>2, <1>1, <1>6
<1>7. ASSUME \A i \in 1..m : input[at + i - 1] = a[i],
             \A i \in 1..n : input[(at + m) + i - 1] = b[i]
      PROVE  \A i \in 1..(m + n) : input[at + i - 1] = c[i]
  <2> TAKE i \in 1..(m + n)
  <2>1. CASE i <= m
    <3>1. i \in 1..m
      BY <2>1, <1>1
    <3> QED BY <3>1, <2>1, <1>1, <1>7
  <2>2. CASE ~(i <= m)
    <3>1. i - m \in 1..n /\ (at + m) + (i - m) - 1 = at + i - 1
      BY <2>2, <1>1
    <3>2. input[(at + m) + (i - m) - 1] = b[i - m]
      BY <3>1, <1>7
    <3> QED BY <3>1, <3>2, <2>2, <1>1
  <2> QED BY <2>1, <2>2
<1>8. At(input, at, c) <=> At(input, at, a) /\ At(input, at + m, b)
  BY <1>2, <1>3, <1>4, <1>5, <1>6, <1>7
<1> QED BY <1>1, <1>8 DEF c, m, n

LEMMA MinusIs ==
  ASSUME NEW x \in 0..MaxValue, NEW y \in 0..MaxValue
  PROVE  /\ Minus(x, y) \in 0..MaxValue
         /\ x >= y => Minus(x, y) = x - y
         /\ x < y => Minus(x, y) > MaxValue - y
<1> DEFINE k == MaxValue
<1>1. k \in Nat
  BY PlacesAre
<1>2. Minus(x, y) = (x - y) % (k + 1)
  BY DEF Minus
<1> HIDE DEF k
<1>3. x \in 0..k /\ y \in 0..k
  BY DEF k
<1>4. CASE x >= y
  <2> DEFINE d == x - y
  <2>1. d \in 0..k
    BY <1>1, <1>3, <1>4
  <2> HIDE DEF d
  <2>2. d % (k + 1) = d
    BY <2>1, <1>1
  <2>3. Minus(x, y) = d
    BY <2>2, <1>2 DEF d
  <2> QED BY <2>1, <2>3, <1>3, <1>4 DEF d, k
<1>5. CASE x < y
  <2> DEFINE d == x - y
             e == d + (k + 1)
  <2>1. d \in Int /\ e \in 0..k /\ e > k - y
    BY <1>1, <1>3, <1>5
  <2>2. d % (k + 1) = e
    <3> HIDE DEF d
    <3> QED BY <2>1, <1>1
  <2>3. Minus(x, y) = e
    BY <2>2, <1>2
  <2> HIDE DEF e, d
  <2> QED BY <2>1, <2>3, <1>3, <1>5 DEF k
<1> QED BY <1>3, <1>4, <1>5

\* A value may follow another one; a zero may only come first.
Rises(before, x, zero) == before < x \/ (zero /\ x = 0)

\* The number that the next one is a difference to.
LEMMA BeforeNext ==
  ASSUME NEW values \in Seq(0..MaxValue)
  PROVE  Before(values, Len(values) + 1) \in 0..MaxValue
                                        /\ (values = <<>> => Before(values, Len(values) + 1) = 0)
<1> DEFINE n == Len(values)
<1>1. n \in Nat /\ MaxValue \in Nat /\ 0 \in 0..MaxValue
  BY PlacesAre
<1>2. CASE n = 0
  BY <1>1, <1>2 DEF Before
<1>3. CASE n # 0
  <2>1. n \in 1..n /\ n + 1 # 1 /\ (n + 1) - 1 = n /\ values # <<>>
    BY <1>1, <1>3
  <2>2. values[n] \in 0..MaxValue
    <3> DEFINE V == 0..MaxValue
    <3>1. values \in Seq(V)
      OBVIOUS
    <3> HIDE DEF V
    <3>2. values[n] \in V
      BY <3>1, <2>1
    <3> QED BY <3>2 DEF V
  <2> HIDE DEF n
  <2>3. Before(values, n + 1) = values[n]
    BY <2>1 DEF Before
  <2> QED BY <2>1, <2>2, <2>3 DEF n
<1> QED BY <1>2, <1>3

\* The encoding of the next difference is read as the next value, or refused.
NextRead(input, at, values, x, zeroFirst) ==
  ReadDelta(input, [failed |-> FALSE, values |-> values, next |-> at], zeroFirst) =
    IF Rises(Before(values, Len(values) + 1), x, zeroFirst /\ values = <<>>)
    THEN [failed |-> FALSE, values |-> Append(values, x),
          next |-> at + Len(Encode(Minus(x, Before(values, Len(values) + 1))))]
    ELSE Refused

LEMMA DeltaDecodes ==
  ASSUME NEW input, NEW at, NEW values \in Seq(0..MaxValue), NEW x \in 0..MaxValue,
         NEW zeroFirst \in BOOLEAN,
         At(input, at, Encode(Minus(x, Before(values, Len(values) + 1))))
  PROVE  NextRead(input, at, values, x, zeroFirst)
<1> DEFINE y == Before(values, Len(values) + 1)
           d == Minus(x, y)
           n == at + Len(Encode(d))
           read == [failed |-> FALSE, values |-> values, next |-> at]
           zero == zeroFirst /\ values = <<>>
           delta == Decode(input, at)
<1>1. y \in 0..MaxValue /\ (values = <<>> => y = 0) /\ MaxValue \in Nat
  BY BeforeNext, PlacesAre
<1>2. d \in 0..MaxValue /\ (x >= y => d = x - y) /\ (x < y => d > MaxValue - y)
  <2> HIDE DEF y
  <2> QED BY <1>1, MinusIs
<1>3. delta = [failed |-> FALSE, value |-> d, next |-> n]
  <2> HIDE DEF d
  <2> QED BY <1>2, IntegerDecodes DEF d
<1> HIDE DEF delta, d, n, y
<1>4. /\ delta.failed = FALSE /\ delta.value = d /\ delta.next = n
      /\ read.failed = FALSE /\ read.values = values /\ read.next = at
  BY <1>3
<1>5. ReadDelta(input, read, zeroFirst) =
        IF (d = 0 /\ ~zero) \/ d > MaxValue - y THEN Refused
        ELSE [failed |-> FALSE, values |-> Append(values, y + d), next |-> n]
  <2> HIDE DEF read
  <2> QED BY <1>4 DEF ReadDelta, delta, y
<1>6. Rises(y, x, zero) => ~((d = 0 /\ ~zero) \/ d > MaxValue - y) /\ y + d = x
  BY <1>1, <1>2 DEF Rises
<1>7. ~Rises(y, x, zero) => (d = 0 /\ ~zero) \/ d > MaxValue - y
  BY <1>1, <1>2 DEF Rises
<1> HIDE DEF read, zero
<1>8. ReadDelta(input, read, zeroFirst) =
        IF Rises(y, x, zero)
        THEN [failed |-> FALSE, values |-> Append(values, x), next |-> n] ELSE Refused
  BY <1>5, <1>6, <1>7
<1> QED BY <1>8 DEF read, zero, n, d, y, NextRead

\* A list that an encoder may be given.
Rising(values, zeroFirst) ==
  \A n \in 1..Len(values) : Rises(Before(values, n), values[n], zeroFirst /\ n = 1)

LEMMA BeforeSame ==
  ASSUME NEW values \in Seq(Number), NEW x
  PROVE  /\ \A i \in 1..Len(values) : /\ Append(values, x)[i] = values[i]
                                      /\ Before(Append(values, x), i) = Before(values, i)
         /\ Before(Append(values, x), Len(values) + 1) = Before(values, Len(values) + 1)
         /\ Append(values, x)[Len(values) + 1] = x /\ Len(Append(values, x)) = Len(values) + 1
<1> DEFINE n == Len(values)
           more == Append(values, x)
<1>1. n \in Nat /\ Len(more) = n + 1 /\ more[n + 1] = x /\ \A i \in 1..n : more[i] = values[i]
  OBVIOUS
<1> HIDE DEF n, more
<1>2. \A i \in 1..n : Before(more, i) = Before(values, i)
  <2> TAKE i \in 1..n
  <2>1. CASE i = 1
    BY <2>1 DEF Before
  <2>2. CASE i # 1
    <3>1. i - 1 \in 1..n
      BY <2>2, <1>1
    <3> QED BY <3>1, <2>2, <1>1 DEF Before
  <2> QED BY <2>1, <2>2
<1>3. Before(more, n + 1) = Before(values, n + 1)
  <2>1. CASE n = 0
    BY <2>1 DEF Before
  <2>2. CASE n # 0
    <3>1. (n + 1) - 1 = n /\ n \in 1..n /\ n + 1 # 1
      BY <2>2, <1>1
    <3> QED BY <3>1, <1>1 DEF Before
  <2> QED BY <2>1, <2>2
<1> QED BY <1>1, <1>2, <1>3 DEF n, more

LEMMA RisingNext ==
  ASSUME NEW values \in Seq(Number), NEW x \in Number, NEW zeroFirst \in BOOLEAN
  PROVE  Rising(Append(values, x), zeroFirst) <=>
           /\ Rising(values, zeroFirst)
           /\ Rises(Before(values, Len(values) + 1), x, zeroFirst /\ values = <<>>)
<1> DEFINE n == Len(values)
           more == Append(values, x)
           R(list, i) == Rises(Before(list, i), list[i], zeroFirst /\ i = 1)
<1>1. n \in Nat /\ (values = <<>> <=> n + 1 = 1)
  OBVIOUS
<1>2. /\ \A i \in 1..n : more[i] = values[i] /\ Before(more, i) = Before(values, i)
      /\ Before(more, n + 1) = Before(values, n + 1)
      /\ more[n + 1] = x /\ Len(more) = n + 1
  BY BeforeSame
<1> HIDE DEF more
<1>3. \A i \in 1..n : R(more, i) <=> R(values, i)
  BY <1>2
<1>4. R(more, n + 1) <=> Rises(Before(values, n + 1), x, zeroFirst /\ values = <<>>)
  BY <1>1, <1>2 DEF Rises
<1>5. (Rising(more, zeroFirst) <=> \A i \in 1..(n + 1) : R(more, i))
      /\ (Rising(values, zeroFirst) <=> \A i \in 1..n : R(values, i))
  BY <1>2 DEF Rising
<1> HIDE DEF n, R
<1>6. 1..(n + 1) = 1..n \cup {n + 1}
  BY <1>1
<1>7. Rising(more, zeroFirst) <=> Rising(values, zeroFirst) /\ R(more, n + 1)
  BY <1>3, <1>5, <1>6
<1> QED BY <1>4, <1>7 DEF n, more

\* What becomes of a list's bytes.
Outcome(values, zeroFirst, at) ==
  IF Rising(values, zeroFirst)
  THEN [failed |-> FALSE, values |-> values, next |-> at + Len(Deltas(values))]
  ELSE Refused

DeltasDecode(input, values, zeroFirst) ==
  /\ Deltas(values) \in Seq(Byte)
  /\ \A at \in Nat \ {0} :
       At(input, at, Deltas(values)) =>
         ReadDeltas(input, at, Len(values), zeroFirst) = Outcome(values, zeroFirst, at)

LEMMA DeltasDecodeNext ==
  ASSUME NEW input \in Seq(Byte), NEW zeroFirst \in BOOLEAN,
         NEW values \in Seq(Number), NEW x \in Number, DeltasDecode(input, values, zeroFirst)
  PROVE  DeltasDecode(input, Append(values, x), zeroFirst)
<1> DEFINE n == Len(values)
           more == Append(values, x)
           y == Before(values, n + 1)
           d == Encode(Minus(x, y))
           e == Deltas(values)
<1>1. n \in Nat /\ Len(more) = n + 1 /\ values \in Seq(0..MaxValue) /\ x \in 0..MaxValue
  BY DEF Number
<1>2. y \in 0..MaxValue
  BY <1>1, BeforeNext
<1>3. d \in Seq(Byte)
  <2> HIDE DEF y
  <2>1. Minus(x, y) \in 0..MaxValue
    BY <1>1, <1>2, MinusIs
  <2> QED BY <2>1, EncodeBytes
<1>4. e \in Seq(Byte)
  BY DEF DeltasDecode
<1>5. Deltas(more) = e \o d
  BY DeltasNext
<1> HIDE DEF e, d, y, n, more
<1>6. e \o d \in Seq(Byte)
  BY <1>3, <1>4, AtBoth, 1 \in Nat \ {0}
<1>7. ASSUME NEW at \in Nat \ {0}, At(input, at, e \o d)
      PROVE  ReadDeltas(input, at, n + 1, zeroFirst) = Outcome(more, zeroFirst, at)
  <2> DEFINE k == at + Len(e)
  <2>1. At(input, at, e) /\ At(input, k, d) /\ k \in Nat \ {0} /\ Len(e \o d) = Len(e) + Len(d)
        /\ Len(e) \in Nat /\ Len(d) \in Nat
    <3>1. Len(e) \in Nat /\ Len(d) \in Nat
      BY <1>3, <1>4
    <3>2. At(input, at, e) /\ At(input, k, d) /\ k \in Nat \ {0} /\ Len(e \o d) = Len(e) + Len(d)
      BY <1>3, <1>4, <1>7, AtBoth
    <3> QED BY <3>1, <3>2
  <2>2. ReadDeltas(input, at, n, zeroFirst) = Outcome(values, zeroFirst, at)
    BY <2>1 DEF DeltasDecode, n, e
  <2>3. ReadDeltas(input, at, n + 1, zeroFirst)
          = ReadDelta(input, Outcome(values, zeroFirst, at), zeroFirst)
    BY <2>2, <1>1, ReadDeltasNext
  <2>4. Rising(more, zeroFirst) <=>
          Rising(values, zeroFirst) /\ Rises(y, x, zeroFirst /\ values = <<>>)
    BY RisingNext DEF more, y, n
  <2>5. CASE ~Rising(values, zeroFirst)
    <3>1. Outcome(values, zeroFirst, at) = Refused /\ Outcome(more, zeroFirst, at) = Refused
      BY <2>4, <2>5 DEF Outcome
    <3>2. Refused.failed = TRUE
      BY DEF Refused
    <3>3. ReadDelta(input, Refused, zeroFirst) = Refused
      BY <3>2 DEF ReadDelta
    <3> QED BY <3>1, <3>3, <2>3
  <2>6. CASE Rising(values, zeroFirst)
    <3> DEFINE read == [failed |-> FALSE, values |-> values, next |-> k]
    <3>1. Outcome(values, zeroFirst, at) = read
      BY <2>6 DEF Outcome, e
    <3>2. at + Len(e \o d) = k + Len(d)
      BY <2>1
    <3> HIDE DEF k
    <3>3. ReadDelta(input, read, zeroFirst) =
            IF Rises(y, x, zeroFirst /\ values = <<>>)
            THEN [failed |-> FALSE, values |-> more, next |-> k + Len(d)] ELSE Refused
      <4>1. NextRead(input, k, values, x, zeroFirst)
        BY <2>1, <1>1, DeltaDecodes DEF y, d, n
      <4> QED BY <4>1, Zenon DEF NextRead, read, y, d, more, n
    <3>4. Outcome(more, zeroFirst, at) =
            IF Rising(more, zeroFirst)
            THEN [failed |-> FALSE, values |-> more, next |-> k + Len(d)] ELSE Refused
      BY <3>2, <1>5 DEF Outcome
    <3> HIDE DEF read
    <3> QED BY <3>1, <3>3, <3>4, <2>3, <2>4, <2>6
  <2> QED BY <2>5, <2>6
<1> QED BY <1>1, <1>5, <1>6, <1>7 DEF DeltasDecode, more

LEMMA DeltasDecodeFirst ==
  ASSUME NEW input, NEW zeroFirst
  PROVE  DeltasDecode(input, <<>>, zeroFirst)
<1>1. Deltas(<<>>) = <<>> /\ <<>> \in Seq(Byte) /\ Len(<<>>) = 0
  BY DeltasFirst
<1>2. \A at : ReadDeltas(input, at, 0, zeroFirst) = StartAt(at)
  BY ReadDeltasNext, 0 \in Nat
<1>3. Rising(<<>>, zeroFirst)
  BY DEF Rising
<1>4. \A at \in Nat : at + 0 = at
  OBVIOUS
<1>5. \A at \in Nat \ {0} : Outcome(<<>>, zeroFirst, at) = StartAt(at)
  BY <1>1, <1>3, <1>4 DEF Outcome, StartAt
<1> QED BY <1>1, <1>2, <1>5 DEF DeltasDecode

\* Wherever the bytes of a list of numbers are, they are read as that list;
\* if its numbers do not rise, they are refused, and never read as others.
THEOREM ListDecodes ==
  ASSUME NEW input \in Seq(Byte), NEW zeroFirst \in BOOLEAN, NEW values \in Seq(Number)
  PROVE  DeltasDecode(input, values, zeroFirst)
<1> DEFINE Bad == {n \in 0..Len(values) : ~DeltasDecode(input, First(values, n), zeroFirst)}
<1>1. First(values, Len(values)) = values /\ First(values, 0) = <<>> /\ Len(values) \in Nat
  BY FirstAll
<1>2. Bad = {}
  <2> SUFFICES ASSUME Bad # {} PROVE FALSE
    OBVIOUS
  <2>1. PICK n \in Bad : \A j \in Bad : n <= j
    <3>1. Bad \in SUBSET Nat
      BY <1>1
    <3> HIDE DEF Bad
    <3> QED BY <3>1, NatMin
  <2>2. n \in 0..Len(values) /\ ~DeltasDecode(input, First(values, n), zeroFirst)
    BY <2>1
  <2>3. n # 0
    BY <2>2, <1>1, DeltasDecodeFirst
  <2>4. n \in 1..Len(values) /\ n - 1 \in 0..Len(values) /\ ~(n <= n - 1)
    BY <2>2, <2>3, <1>1
  <2>5. n - 1 \notin Bad
    <3> HIDE DEF Bad
    <3> QED BY <2>1, <2>4
  <2>6. DeltasDecode(input, First(values, n - 1), zeroFirst)
    BY <2>4, <2>5
  <2>7. /\ First(values, n) = Append(First(values, n - 1), values[n])
        /\ First(values, n - 1) \in Seq(Number) /\ values[n] \in Number
    BY <2>4, FirstIs
  <2>8. DeltasDecode(input, Append(First(values, n - 1), values[n]), zeroFirst)
    BY <2>6, <2>7, DeltasDecodeNext
  <2> QED BY <2>2, <2>7, <2>8
<1>3. Len(values) \in 0..Len(values)
  BY <1>1
<1> QED BY <1>1, <1>2, <1>3

\* What has been read, if it was not refused, is what stands there.
IsList(input, at, n, zeroFirst, read) ==
  /\ read = [failed |-> FALSE, values |-> read.values, next |-> read.next]
  /\ read.values \in Seq(Number) /\ Len(read.values) = n /\ Rising(read.values, zeroFirst)
  /\ Deltas(read.values) \in Seq(Byte) /\ At(input, at, Deltas(read.values))
  /\ read.next = at + Len(Deltas(read.values))

LEMMA DeltaCanonical ==
  ASSUME NEW input \in Seq(Byte), NEW at \in Nat \ {0}, NEW n \in Nat, NEW zeroFirst \in BOOLEAN,
         NEW read, IsList(input, at, n, zeroFirst, read),
         ~ReadDelta(input, read, zeroFirst).failed
  PROVE  IsList(input, at, n + 1, zeroFirst, ReadDelta(input, read, zeroFirst))
<1> DEFINE delta == Decode(input, read.next)
           v == delta.value
           y == Before(read.values, Len(read.values) + 1)
           x == y + v
           more == Append(read.values, x)
           e == Deltas(read.values)
           zero == zeroFirst /\ read.values = <<>>
           after == ReadDelta(input, read, zeroFirst)
<1>1. /\ read.values \in Seq(Number) /\ Len(read.values) = n /\ Rising(read.values, zeroFirst)
      /\ e \in Seq(Byte) /\ At(input, at, e) /\ read.next = at + Len(e)
  BY DEF IsList
<1>2. read.failed = FALSE
  BY DEF IsList
<1>3. Refused.failed = TRUE
  BY DEF Refused
<1>4. /\ ~delta.failed /\ ~(v = 0 /\ ~zero) /\ ~(v > MaxValue - y)
      /\ after = [failed |-> FALSE, values |-> more, next |-> delta.next]
  BY <1>2, <1>3 DEF ReadDelta
<1>5. read.next \in Nat \ {0} /\ Len(e) \in Nat
  BY <1>1
<1>6. /\ v \in 0..MaxValue /\ At(input, read.next, Encode(v))
      /\ delta.next = read.next + Len(Encode(v))
  BY <1>4, <1>5, IntegerCanonical
<1>7. y \in 0..MaxValue /\ MaxValue \in Nat
  BY <1>1, BeforeNext, PlacesAre DEF Number
<1> HIDE DEF delta, v, y, more, e, after
<1>8. x \in 0..MaxValue /\ x >= y /\ x - y = v
  BY <1>4, <1>6, <1>7
<1>9. Minus(x, y) = v
  <2> HIDE DEF x
  <2> QED BY <1>7, <1>8, MinusIs
<1>10. Rises(y, x, zero)
  <2>1. CASE v = 0
    <3>1. zero /\ read.values = <<>>
      BY <2>1, <1>4
    <3>2. y = 0
      BY <3>1, <1>1, BeforeNext DEF y, Number
    <3> QED BY <3>1, <3>2, <2>1 DEF Rises
  <2>2. CASE v # 0
    <3>1. y < x
      BY <2>2, <1>6, <1>7
    <3> QED BY <3>1 DEF Rises
  <2> QED BY <2>1, <2>2
<1> HIDE DEF x
<1>11. x \in Number
  BY <1>8 DEF Number
<1>12. Deltas(more) = e \o Encode(v)
  BY <1>1, <1>9, <1>11, DeltasNext DEF more, e, y
<1>13. Rising(more, zeroFirst)
  BY <1>1, <1>10, <1>11, RisingNext DEF more, y
<1>14. Encode(v) \in Seq(Byte) /\ Len(Encode(v)) \in Nat
  BY <1>6, EncodeBytes
<1> DEFINE d == Encode(v)
<1> HIDE DEF d
<1>15. d \in Seq(Byte) /\ Len(d) \in Nat /\ At(input, at + Len(e), d)
       /\ delta.next = (at + Len(e)) + Len(d)
  BY <1>1, <1>6, <1>14 DEF d
<1>16. At(input, at, e \o d) /\ e \o d \in Seq(Byte) /\ Len(e \o d) = Len(e) + Len(d)
  BY <1>1, <1>15, AtBoth
<1>17. delta.next = at + Len(e \o d)
  BY <1>5, <1>15, <1>16
<1>18. more \in Seq(Number) /\ Len(more) = n + 1
  BY <1>1, <1>11 DEF more
<1>19. Deltas(more) = e \o d
  BY <1>12 DEF d
<1>20. after = [failed |-> FALSE, values |-> after.values, next |-> after.next]
       /\ after.values = more /\ after.next = delta.next
  BY <1>4
<1>21. IsList(input, at, n + 1, zeroFirst, after)
  BY <1>13, <1>16, <1>17, <1>18, <1>19, <1>20 DEF IsList
<1> QED BY <1>21 DEF after

\* What is accepted is the encoding of the list that it is read as, whose
\* numbers rise and are all in range.
THEOREM ListCanonical ==
  ASSUME NEW input \in Seq(Byte), NEW at \in Nat \ {0}, NEW count \in Nat,
         NEW zeroFirst \in BOOLEAN, at <= Len(input) + 1,
         ~ReadDeltas(input, at, count, zeroFirst).failed
  PROVE  IsList(input, at, count, zeroFirst, ReadDeltas(input, at, count, zeroFirst))
<1> DEFINE Read(n) == ReadDeltas(input, at, n, zeroFirst)
           Bad == {n \in Nat : ~Read(n).failed /\ ~IsList(input, at, n, zeroFirst, Read(n))}
<1> SUFFICES ASSUME Bad # {} PROVE FALSE
  OBVIOUS
<1>1. PICK n \in Bad : \A j \in Bad : n <= j
  <2>1. Bad \in SUBSET Nat
    OBVIOUS
  <2> HIDE DEF Bad
  <2> QED BY <2>1, NatMin
<1>2. n \in Nat /\ ~Read(n).failed /\ ~IsList(input, at, n, zeroFirst, Read(n))
  BY <1>1
<1>3. CASE n = 0
  <2>1. Read(0) = StartAt(at)
    BY ReadDeltasNext, 0 \in Nat
  <2>2. Read(0) = [failed |-> FALSE, values |-> <<>>, next |-> at]
        /\ Read(0).values = <<>> /\ Read(0).next = at
    BY <2>1 DEF StartAt
  <2>3. Deltas(<<>>) = <<>>
    BY DeltasFirst
  <2>4. Rising(<<>>, zeroFirst)
    BY DEF Rising
  <2>5. At(input, at, <<>>)
    BY DEF At
  <2>6. <<>> \in Seq(Number) /\ <<>> \in Seq(Byte) /\ Len(<<>>) = 0 /\ at + 0 = at
    OBVIOUS
  <2> HIDE DEF Read
  <2>7. IsList(input, at, 0, zeroFirst, Read(0))
    BY <2>2, <2>3, <2>4, <2>5, <2>6 DEF IsList
  <2> QED BY <2>7, <1>2, <1>3
<1>4. CASE n # 0
  <2> DEFINE m == n - 1
  <2>1. m \in Nat /\ m + 1 = n /\ ~(n <= m)
    BY <1>2, <1>4
  <2> HIDE DEF m
  <2>2. Read(m + 1) = ReadDelta(input, Read(m), zeroFirst)
    BY <2>1, ReadDeltasNext
  <2> HIDE DEF Read
  <2>3. Read(n) = ReadDelta(input, Read(m), zeroFirst)
    BY <2>1, <2>2
  <2>4. ~Read(m).failed
    <3>1. Refused.failed = TRUE
      BY DEF Refused
    <3>2. SUFFICES ASSUME Read(m).failed PROVE FALSE
      OBVIOUS
    <3>3. ReadDelta(input, Read(m), zeroFirst) = Refused
      BY <3>2 DEF ReadDelta
    <3> QED BY <3>1, <3>3, <2>3, <1>2
  <2>5. m \notin Bad
    <3> HIDE DEF Bad
    <3> QED BY <2>1, <1>1
  <2>6. IsList(input, at, m, zeroFirst, Read(m))
    BY <2>1, <2>4, <2>5
  <2>7. ~ReadDelta(input, Read(m), zeroFirst).failed
    BY <2>3, <1>2
  <2>8. IsList(input, at, m + 1, zeroFirst, ReadDelta(input, Read(m), zeroFirst))
    BY <2>1, <2>6, <2>7, DeltaCanonical
  <2> QED BY <2>1, <2>3, <2>8, <1>2
<1> QED BY <1>3, <1>4

-----------------------------------------------------------------------------
(* Posting lists                                                           *)

\* The bytes of the first postings.
EncodePostingsRuns(postings, m, g) ==
  /\ g = [i \in 0..m |-> g[i]]
  /\ g[0] = <<>>
  /\ \A i \in 1..m : g[i] = g[i - 1] \o PostingBytes(postings[i], DocBefore(postings, i))

LEMMA EncodePostingsRunsExist ==
  ASSUME NEW postings, NEW m \in Nat
  PROVE  \E g : EncodePostingsRuns(postings, m, g)
<1> DEFINE Has(n) == \E g : EncodePostingsRuns(postings, n, g)
           Bad == {n \in Nat : ~Has(n)}
<1> SUFFICES ASSUME Bad # {} PROVE FALSE
  OBVIOUS
<1>1. PICK n \in Bad : \A j \in Bad : n <= j
  <2>1. Bad \in SUBSET Nat
    OBVIOUS
  <2> HIDE DEF Bad
  <2> QED BY <2>1, NatMin
<1>2. n \in Nat /\ ~Has(n)
  BY <1>1
<1>3. CASE n = 0
  <2> DEFINE g == [i \in 0..0 |-> <<>>]
  <2>1. g = [i \in 0..0 |-> g[i]] /\ g[0] = <<>> /\ 1..0 = {}
    OBVIOUS
  <2> HIDE DEF g
  <2>2. EncodePostingsRuns(postings, 0, g)
    BY <2>1 DEF EncodePostingsRuns
  <2> QED BY <2>2, <1>2, <1>3
<1>4. CASE n # 0
  <2>1. n - 1 \in Nat /\ n - 1 < n
    BY <1>2, <1>4
  <2>2. n - 1 \notin Bad
    <3> HIDE DEF Bad
    <3> QED BY <2>1, <1>1, <1>2
  <2>3. PICK f : EncodePostingsRuns(postings, n - 1, f)
    BY <2>1, <2>2
  <2>4. f[0] = <<>> /\ \A i \in 1..(n - 1) : f[i] = f[i - 1] \o PostingBytes(postings[i], DocBefore(postings, i))
    BY <2>3 DEF EncodePostingsRuns
  <2> DEFINE T(i, before) == before \o PostingBytes(postings[i], DocBefore(postings, i))
             g == [i \in 0..n |-> IF i = n THEN T(n, f[n - 1]) ELSE f[i]]
  <2>5. g = [i \in 0..n |-> g[i]]
    OBVIOUS
  <2>6. \A i \in 1..(n - 1) : f[i] = T(i, f[i - 1])
    BY <2>4
  <2> HIDE DEF T
  <2>7. /\ \A i \in 0..(n - 1) : g[i] = f[i]
        /\ g[n] = T(n, f[n - 1])
    BY <1>2
  <2> HIDE DEF g
  <2>8. \A i \in 1..n : /\ i - 1 \in 0..(n - 1)
                        /\ i # n => i \in 1..(n - 1) /\ i \in 0..(n - 1)
    BY <1>2
  <2>9. g[0] = <<>>
    <3>1. 0 \in 0..(n - 1)
      BY <2>1
    <3> QED BY <3>1, <2>4, <2>7
  <2>10. \A i \in 1..n : g[i] = T(i, g[i - 1])
    <3> TAKE i \in 1..n
    <3>1. g[i - 1] = f[i - 1]
      BY <2>7, <2>8
    <3>2. CASE i = n
      BY <3>1, <3>2, <2>7
    <3>3. CASE i # n
      <4>1. g[i] = f[i]
        BY <3>3, <2>7, <2>8
      <4>2. f[i] = T(i, f[i - 1])
        BY <3>3, <2>6, <2>8
      <4> QED BY <3>1, <4>1, <4>2
    <3> QED BY <3>2, <3>3
  <2>11. EncodePostingsRuns(postings, n, g)
    BY <2>5, <2>9, <2>10 DEF EncodePostingsRuns, T
  <2> QED BY <2>11, <1>2
<1> QED BY <1>3, <1>4

LEMMA EncodePostingsIs ==
  ASSUME NEW postings, Len(postings) \in Nat
  PROVE  \E g : EncodePostingsRuns(postings, Len(postings), g) /\ EncodePostings(postings) = g[Len(postings)]
<1> DEFINE m == Len(postings)
           T(i, before) == before \o PostingBytes(postings[i], DocBefore(postings, i))
           F(g) == [n \in 0..m |-> IF n = 0 THEN <<>> ELSE T(n, g[n - 1])]
           run == CHOOSE g : g = F(g)
<1>1. EncodePostings(postings) = run[m]
  BY DEF EncodePostings
<1>2. m \in Nat
  OBVIOUS
<1> HIDE DEF m
<1>3. PICK h : EncodePostingsRuns(postings, m, h)
  BY <1>2, EncodePostingsRunsExist
<1>4. h = [n \in 0..m |-> h[n]] /\ h[0] = <<>> /\ \A n \in 1..m : h[n] = T(n, h[n - 1])
  BY <1>3 DEF EncodePostingsRuns
<1> HIDE DEF T
<1>5. h = F(h)
  <2>1. \A n \in 0..m : n # 0 => n \in 1..m
    BY <1>2
  <2>2. \A n \in 0..m : h[n] = IF n = 0 THEN <<>> ELSE T(n, h[n - 1])
    BY <2>1, <1>4
  <2>3. [n \in 0..m |-> h[n]] = F(h)
    BY <2>2
  <2> QED BY <2>3, <1>4
<1>6. run = F(run)
  <2> HIDE DEF F
  <2> QED BY <1>5
<1> HIDE DEF run
<1>7. EncodePostingsRuns(postings, m, run)
  <2>1. /\ \A n \in 0..m : F(run)[n] = IF n = 0 THEN <<>> ELSE T(n, run[n - 1])
        /\ F(run) = [n \in 0..m |-> F(run)[n]]
    OBVIOUS
  <2> HIDE DEF F
  <2>2. /\ run = [n \in 0..m |-> run[n]]
        /\ \A n \in 0..m : run[n] = IF n = 0 THEN <<>> ELSE T(n, run[n - 1])
    BY <2>1, <1>6
  <2>3. 0 \in 0..m /\ \A n \in 1..m : n \in 0..m /\ n # 0
    BY <1>2
  <2>4. run[0] = <<>> /\ \A n \in 1..m : run[n] = T(n, run[n - 1])
    BY <2>2, <2>3
  <2> QED BY <2>2, <2>4 DEF EncodePostingsRuns, T
<1> QED BY <1>1, <1>7 DEF m

LEMMA EncodePostingsFirst == EncodePostings(<<>>) = <<>>
<1>1. Len(<<>>) = 0 /\ 0 \in Nat
  OBVIOUS
<1>2. PICK g : EncodePostingsRuns(<<>>, Len(<<>>), g) /\ EncodePostings(<<>>) = g[Len(<<>>)]
  BY <1>1, EncodePostingsIs
<1> QED BY <1>1, <1>2 DEF EncodePostingsRuns

LEMMA EncodePostingsNext ==
  ASSUME NEW S, NEW postings \in Seq(S), NEW x \in S
  PROVE  EncodePostings(Append(postings, x)) =
           EncodePostings(postings) \o PostingBytes(x, DocBefore(postings, Len(postings) + 1))
<1> DEFINE n == Len(postings)
           more == Append(postings, x)
<1>1. n \in Nat /\ Len(more) = n + 1 /\ more[n + 1] = x /\ \A i \in 1..n : more[i] = postings[i]
  OBVIOUS
<1>2. PICK g : EncodePostingsRuns(postings, n, g) /\ EncodePostings(postings) = g[n]
  BY <1>1, EncodePostingsIs
<1>3. PICK h : EncodePostingsRuns(more, n + 1, h) /\ EncodePostings(more) = h[n + 1]
  <2>1. \E h : EncodePostingsRuns(more, Len(more), h) /\ EncodePostings(more) = h[Len(more)]
    <3>1. Len(more) \in Nat
      BY <1>1
    <3> HIDE DEF more
    <3> QED BY <3>1, EncodePostingsIs
  <2> QED BY <2>1, <1>1
<1> HIDE DEF n, more
<1>4. \A i \in 1..n : DocBefore(more, i) = DocBefore(postings, i)
  <2> TAKE i \in 1..n
  <2>1. CASE i = 1
    BY <2>1 DEF DocBefore
  <2>2. CASE i # 1
    <3>1. i - 1 \in 1..n
      BY <2>2, <1>1
    <3> QED BY <3>1, <2>2, <1>1 DEF DocBefore
  <2> QED BY <2>1, <2>2
<1>5. DocBefore(more, n + 1) = DocBefore(postings, n + 1)
  <2>1. CASE n = 0
    BY <2>1 DEF DocBefore
  <2>2. CASE n # 0
    <3>1. (n + 1) - 1 = n /\ n \in 1..n /\ n + 1 # 1
      BY <2>2, <1>1
    <3> QED BY <3>1, <1>1 DEF DocBefore
  <2> QED BY <2>1, <2>2
<1> DEFINE T(i, p) == p \o PostingBytes(postings[i], DocBefore(postings, i))
           Bad == {i \in 0..n : g[i] # h[i]}
<1>6. Bad = {}
  <2> SUFFICES ASSUME Bad # {} PROVE FALSE
    OBVIOUS
  <2>1. PICK i \in Bad : \A j \in Bad : i <= j
    <3>1. Bad \in SUBSET Nat
      BY <1>1
    <3> HIDE DEF Bad
    <3> QED BY <3>1, NatMin
  <2>2. i \in 0..n /\ g[i] # h[i]
    BY <2>1
  <2>3. i # 0
    BY <2>2, <1>2, <1>3 DEF EncodePostingsRuns
  <2>4. i \in 1..n /\ i \in 1..(n + 1) /\ i - 1 \in 0..n /\ ~(i <= i - 1)
    BY <2>2, <2>3, <1>1
  <2>5. i - 1 \notin Bad
    <3> HIDE DEF Bad
    <3> QED BY <2>1, <2>4
  <2>6. g[i - 1] = h[i - 1]
    BY <2>4, <2>5
  <2>7. g[i] = T(i, g[i - 1])
    BY <2>4, <1>2 DEF EncodePostingsRuns
  <2>8. h[i] = T(i, h[i - 1])
    BY <2>4, <1>1, <1>3, <1>4 DEF EncodePostingsRuns
  <2> HIDE DEF T
  <2> QED BY <2>2, <2>6, <2>7, <2>8
<1>7. g[n] = h[n]
  <2>1. n \in 0..n
    BY <1>1
  <2> QED BY <2>1, <1>6
<1>8. h[n + 1] = h[n] \o PostingBytes(x, DocBefore(postings, n + 1))
  <2>1. n + 1 \in 1..(n + 1) /\ (n + 1) - 1 = n
    BY <1>1
  <2> QED BY <2>1, <1>1, <1>3, <1>5 DEF EncodePostingsRuns
<1> QED BY <1>2, <1>3, <1>7, <1>8 DEF n, more

\* The positions of the first postings.
TotalRuns(postings, m, g) ==
  /\ g = [i \in 0..m |-> g[i]]
  /\ g[0] = 0
  /\ \A i \in 1..m : g[i] = g[i - 1] + Len(postings[i].positions)

LEMMA TotalRunsExist ==
  ASSUME NEW postings, NEW m \in Nat
  PROVE  \E g : TotalRuns(postings, m, g)
<1> DEFINE Has(n) == \E g : TotalRuns(postings, n, g)
           Bad == {n \in Nat : ~Has(n)}
<1> SUFFICES ASSUME Bad # {} PROVE FALSE
  OBVIOUS
<1>1. PICK n \in Bad : \A j \in Bad : n <= j
  <2>1. Bad \in SUBSET Nat
    OBVIOUS
  <2> HIDE DEF Bad
  <2> QED BY <2>1, NatMin
<1>2. n \in Nat /\ ~Has(n)
  BY <1>1
<1>3. CASE n = 0
  <2> DEFINE g == [i \in 0..0 |-> 0]
  <2>1. g = [i \in 0..0 |-> g[i]] /\ g[0] = 0 /\ 1..0 = {}
    OBVIOUS
  <2> HIDE DEF g
  <2>2. TotalRuns(postings, 0, g)
    BY <2>1 DEF TotalRuns
  <2> QED BY <2>2, <1>2, <1>3
<1>4. CASE n # 0
  <2>1. n - 1 \in Nat /\ n - 1 < n
    BY <1>2, <1>4
  <2>2. n - 1 \notin Bad
    <3> HIDE DEF Bad
    <3> QED BY <2>1, <1>1, <1>2
  <2>3. PICK f : TotalRuns(postings, n - 1, f)
    BY <2>1, <2>2
  <2>4. f[0] = 0 /\ \A i \in 1..(n - 1) : f[i] = f[i - 1] + Len(postings[i].positions)
    BY <2>3 DEF TotalRuns
  <2> DEFINE T(i, before) == before + Len(postings[i].positions)
             g == [i \in 0..n |-> IF i = n THEN T(n, f[n - 1]) ELSE f[i]]
  <2>5. g = [i \in 0..n |-> g[i]]
    OBVIOUS
  <2>6. \A i \in 1..(n - 1) : f[i] = T(i, f[i - 1])
    BY <2>4
  <2> HIDE DEF T
  <2>7. /\ \A i \in 0..(n - 1) : g[i] = f[i]
        /\ g[n] = T(n, f[n - 1])
    BY <1>2
  <2> HIDE DEF g
  <2>8. \A i \in 1..n : /\ i - 1 \in 0..(n - 1)
                        /\ i # n => i \in 1..(n - 1) /\ i \in 0..(n - 1)
    BY <1>2
  <2>9. g[0] = 0
    <3>1. 0 \in 0..(n - 1)
      BY <2>1
    <3> QED BY <3>1, <2>4, <2>7
  <2>10. \A i \in 1..n : g[i] = T(i, g[i - 1])
    <3> TAKE i \in 1..n
    <3>1. g[i - 1] = f[i - 1]
      BY <2>7, <2>8
    <3>2. CASE i = n
      BY <3>1, <3>2, <2>7
    <3>3. CASE i # n
      <4>1. g[i] = f[i]
        BY <3>3, <2>7, <2>8
      <4>2. f[i] = T(i, f[i - 1])
        BY <3>3, <2>6, <2>8
      <4> QED BY <3>1, <4>1, <4>2
    <3> QED BY <3>2, <3>3
  <2>11. TotalRuns(postings, n, g)
    BY <2>5, <2>9, <2>10 DEF TotalRuns, T
  <2> QED BY <2>11, <1>2
<1> QED BY <1>3, <1>4

LEMMA TotalIs ==
  ASSUME NEW postings, Len(postings) \in Nat
  PROVE  \E g : TotalRuns(postings, Len(postings), g) /\ Total(postings) = g[Len(postings)]
<1> DEFINE m == Len(postings)
           T(i, before) == before + Len(postings[i].positions)
           F(g) == [n \in 0..m |-> IF n = 0 THEN 0 ELSE T(n, g[n - 1])]
           run == CHOOSE g : g = F(g)
<1>1. Total(postings) = run[m]
  BY DEF Total
<1>2. m \in Nat
  OBVIOUS
<1> HIDE DEF m
<1>3. PICK h : TotalRuns(postings, m, h)
  BY <1>2, TotalRunsExist
<1>4. h = [n \in 0..m |-> h[n]] /\ h[0] = 0 /\ \A n \in 1..m : h[n] = T(n, h[n - 1])
  BY <1>3 DEF TotalRuns
<1> HIDE DEF T
<1>5. h = F(h)
  <2>1. \A n \in 0..m : n # 0 => n \in 1..m
    BY <1>2
  <2>2. \A n \in 0..m : h[n] = IF n = 0 THEN 0 ELSE T(n, h[n - 1])
    BY <2>1, <1>4
  <2>3. [n \in 0..m |-> h[n]] = F(h)
    BY <2>2
  <2> QED BY <2>3, <1>4
<1>6. run = F(run)
  <2> HIDE DEF F
  <2> QED BY <1>5
<1> HIDE DEF run
<1>7. TotalRuns(postings, m, run)
  <2>1. /\ \A n \in 0..m : F(run)[n] = IF n = 0 THEN 0 ELSE T(n, run[n - 1])
        /\ F(run) = [n \in 0..m |-> F(run)[n]]
    OBVIOUS
  <2> HIDE DEF F
  <2>2. /\ run = [n \in 0..m |-> run[n]]
        /\ \A n \in 0..m : run[n] = IF n = 0 THEN 0 ELSE T(n, run[n - 1])
    BY <2>1, <1>6
  <2>3. 0 \in 0..m /\ \A n \in 1..m : n \in 0..m /\ n # 0
    BY <1>2
  <2>4. run[0] = 0 /\ \A n \in 1..m : run[n] = T(n, run[n - 1])
    BY <2>2, <2>3
  <2> QED BY <2>2, <2>4 DEF TotalRuns, T
<1> QED BY <1>1, <1>7 DEF m

LEMMA TotalFirst == Total(<<>>) = 0
<1>1. Len(<<>>) = 0 /\ 0 \in Nat
  OBVIOUS
<1>2. PICK g : TotalRuns(<<>>, Len(<<>>), g) /\ Total(<<>>) = g[Len(<<>>)]
  BY <1>1, TotalIs
<1> QED BY <1>1, <1>2 DEF TotalRuns

LEMMA TotalNext ==
  ASSUME NEW S, NEW postings \in Seq(S), NEW x \in S
  PROVE  Total(Append(postings, x)) =
           Total(postings) + Len(x.positions)
<1> DEFINE n == Len(postings)
           more == Append(postings, x)
<1>1. n \in Nat /\ Len(more) = n + 1 /\ more[n + 1] = x /\ \A i \in 1..n : more[i] = postings[i]
  OBVIOUS
<1>2. PICK g : TotalRuns(postings, n, g) /\ Total(postings) = g[n]
  BY <1>1, TotalIs
<1>3. PICK h : TotalRuns(more, n + 1, h) /\ Total(more) = h[n + 1]
  <2>1. \E h : TotalRuns(more, Len(more), h) /\ Total(more) = h[Len(more)]
    <3>1. Len(more) \in Nat
      BY <1>1
    <3> HIDE DEF more
    <3> QED BY <3>1, TotalIs
  <2> QED BY <2>1, <1>1
<1> HIDE DEF n, more
<1> DEFINE T(i, p) == p + Len(postings[i].positions)
           Bad == {i \in 0..n : g[i] # h[i]}
<1>6. Bad = {}
  <2> SUFFICES ASSUME Bad # {} PROVE FALSE
    OBVIOUS
  <2>1. PICK i \in Bad : \A j \in Bad : i <= j
    <3>1. Bad \in SUBSET Nat
      BY <1>1
    <3> HIDE DEF Bad
    <3> QED BY <3>1, NatMin
  <2>2. i \in 0..n /\ g[i] # h[i]
    BY <2>1
  <2>3. i # 0
    BY <2>2, <1>2, <1>3 DEF TotalRuns
  <2>4. i \in 1..n /\ i \in 1..(n + 1) /\ i - 1 \in 0..n /\ ~(i <= i - 1)
    BY <2>2, <2>3, <1>1
  <2>5. i - 1 \notin Bad
    <3> HIDE DEF Bad
    <3> QED BY <2>1, <2>4
  <2>6. g[i - 1] = h[i - 1]
    BY <2>4, <2>5
  <2>7. g[i] = T(i, g[i - 1])
    BY <2>4, <1>2 DEF TotalRuns
  <2>8. h[i] = T(i, h[i - 1])
    BY <2>4, <1>1, <1>3 DEF TotalRuns
  <2> HIDE DEF T
  <2> QED BY <2>2, <2>6, <2>7, <2>8
<1>7. g[n] = h[n]
  <2>1. n \in 0..n
    BY <1>1
  <2> QED BY <2>1, <1>6
<1>8. h[n + 1] = h[n] + Len(x.positions)
  <2>1. n + 1 \in 1..(n + 1) /\ (n + 1) - 1 = n
    BY <1>1
  <2> QED BY <2>1, <1>1, <1>3 DEF TotalRuns
<1> QED BY <1>2, <1>3, <1>7, <1>8 DEF n, more

NoPostings == [failed |-> FALSE, postings |-> <<>>, next |-> 1, used |-> 0]

\* What is read of the first postings.
ReadPostingsRuns(input, m, g) ==
  /\ g = [i \in 0..m |-> g[i]]
  /\ g[0] = NoPostings
  /\ \A i \in 1..m : g[i] = ReadPosting(input, g[i - 1])

LEMMA ReadPostingsRunsExist ==
  ASSUME NEW input, NEW m \in Nat
  PROVE  \E g : ReadPostingsRuns(input, m, g)
<1> DEFINE Has(n) == \E g : ReadPostingsRuns(input, n, g)
           Bad == {n \in Nat : ~Has(n)}
<1> SUFFICES ASSUME Bad # {} PROVE FALSE
  OBVIOUS
<1>1. PICK n \in Bad : \A j \in Bad : n <= j
  <2>1. Bad \in SUBSET Nat
    OBVIOUS
  <2> HIDE DEF Bad
  <2> QED BY <2>1, NatMin
<1>2. n \in Nat /\ ~Has(n)
  BY <1>1
<1>3. CASE n = 0
  <2> DEFINE g == [i \in 0..0 |-> NoPostings]
  <2>1. g = [i \in 0..0 |-> g[i]] /\ g[0] = NoPostings /\ 1..0 = {}
    OBVIOUS
  <2> HIDE DEF g
  <2>2. ReadPostingsRuns(input, 0, g)
    BY <2>1 DEF ReadPostingsRuns
  <2> QED BY <2>2, <1>2, <1>3
<1>4. CASE n # 0
  <2>1. n - 1 \in Nat /\ n - 1 < n
    BY <1>2, <1>4
  <2>2. n - 1 \notin Bad
    <3> HIDE DEF Bad
    <3> QED BY <2>1, <1>1, <1>2
  <2>3. PICK f : ReadPostingsRuns(input, n - 1, f)
    BY <2>1, <2>2
  <2>4. f[0] = NoPostings /\ \A i \in 1..(n - 1) : f[i] = ReadPosting(input, f[i - 1])
    BY <2>3 DEF ReadPostingsRuns
  <2> DEFINE T(i, before) == ReadPosting(input, before)
             g == [i \in 0..n |-> IF i = n THEN T(n, f[n - 1]) ELSE f[i]]
  <2>5. g = [i \in 0..n |-> g[i]]
    OBVIOUS
  <2>6. \A i \in 1..(n - 1) : f[i] = T(i, f[i - 1])
    BY <2>4
  <2> HIDE DEF T
  <2>7. /\ \A i \in 0..(n - 1) : g[i] = f[i]
        /\ g[n] = T(n, f[n - 1])
    BY <1>2
  <2> HIDE DEF g
  <2>8. \A i \in 1..n : /\ i - 1 \in 0..(n - 1)
                        /\ i # n => i \in 1..(n - 1) /\ i \in 0..(n - 1)
    BY <1>2
  <2>9. g[0] = NoPostings
    <3>1. 0 \in 0..(n - 1)
      BY <2>1
    <3> QED BY <3>1, <2>4, <2>7
  <2>10. \A i \in 1..n : g[i] = T(i, g[i - 1])
    <3> TAKE i \in 1..n
    <3>1. g[i - 1] = f[i - 1]
      BY <2>7, <2>8
    <3>2. CASE i = n
      BY <3>1, <3>2, <2>7
    <3>3. CASE i # n
      <4>1. g[i] = f[i]
        BY <3>3, <2>7, <2>8
      <4>2. f[i] = T(i, f[i - 1])
        BY <3>3, <2>6, <2>8
      <4> QED BY <3>1, <4>1, <4>2
    <3> QED BY <3>2, <3>3
  <2>11. ReadPostingsRuns(input, n, g)
    BY <2>5, <2>9, <2>10 DEF ReadPostingsRuns, T
  <2> QED BY <2>11, <1>2
<1> QED BY <1>3, <1>4

LEMMA ReadPostingsIs ==
  ASSUME NEW input, NEW m, m \in Nat
  PROVE  \E g : ReadPostingsRuns(input, m, g) /\ ReadPostings(input, m) = g[m]
<1> DEFINE T(i, before) == ReadPosting(input, before)
           F(g) == [n \in 0..m |-> IF n = 0 THEN NoPostings ELSE T(n, g[n - 1])]
           run == CHOOSE g : g = F(g)
<1>1. ReadPostings(input, m) = run[m]
  BY DEF ReadPostings, NoPostings
<1>2. m \in Nat
  OBVIOUS
<1>3. PICK h : ReadPostingsRuns(input, m, h)
  BY <1>2, ReadPostingsRunsExist
<1>4. h = [n \in 0..m |-> h[n]] /\ h[0] = NoPostings /\ \A n \in 1..m : h[n] = T(n, h[n - 1])
  BY <1>3 DEF ReadPostingsRuns
<1> HIDE DEF T
<1>5. h = F(h)
  <2>1. \A n \in 0..m : n # 0 => n \in 1..m
    BY <1>2
  <2>2. \A n \in 0..m : h[n] = IF n = 0 THEN NoPostings ELSE T(n, h[n - 1])
    BY <2>1, <1>4
  <2>3. [n \in 0..m |-> h[n]] = F(h)
    BY <2>2
  <2> QED BY <2>3, <1>4
<1>6. run = F(run)
  <2> HIDE DEF F
  <2> QED BY <1>5
<1> HIDE DEF run
<1>7. ReadPostingsRuns(input, m, run)
  <2>1. /\ \A n \in 0..m : F(run)[n] = IF n = 0 THEN NoPostings ELSE T(n, run[n - 1])
        /\ F(run) = [n \in 0..m |-> F(run)[n]]
    OBVIOUS
  <2> HIDE DEF F
  <2>2. /\ run = [n \in 0..m |-> run[n]]
        /\ \A n \in 0..m : run[n] = IF n = 0 THEN NoPostings ELSE T(n, run[n - 1])
    BY <2>1, <1>6
  <2>3. 0 \in 0..m /\ \A n \in 1..m : n \in 0..m /\ n # 0
    BY <1>2
  <2>4. run[0] = NoPostings /\ \A n \in 1..m : run[n] = T(n, run[n - 1])
    BY <2>2, <2>3
  <2> QED BY <2>2, <2>4 DEF ReadPostingsRuns, T
<1> QED BY <1>1, <1>7

LEMMA ReadPostingsAgree ==
  ASSUME NEW input, NEW m \in Nat, NEW g, ReadPostingsRuns(input, m, g),
         NEW n \in Nat, m <= n, NEW h, ReadPostingsRuns(input, n, h)
  PROVE  g[m] = h[m]
<1> DEFINE Bad == {i \in 0..m : g[i] # h[i]}
           T(i, before) == ReadPosting(input, before)
<1>1. Bad = {}
  <2> SUFFICES ASSUME Bad # {} PROVE FALSE
    OBVIOUS
  <2>1. PICK i \in Bad : \A j \in Bad : i <= j
    <3>1. Bad \in SUBSET Nat
      OBVIOUS
    <3> HIDE DEF Bad
    <3> QED BY <3>1, NatMin
  <2>2. i \in 0..m /\ g[i] # h[i]
    BY <2>1
  <2>3. i # 0
    BY <2>2 DEF ReadPostingsRuns
  <2>4. i \in 1..m /\ i \in 1..n /\ i - 1 \in 0..m /\ ~(i <= i - 1)
    BY <2>2, <2>3
  <2>5. i - 1 \notin Bad
    <3> HIDE DEF Bad
    <3> QED BY <2>1, <2>4
  <2>6. g[i - 1] = h[i - 1]
    BY <2>4, <2>5
  <2>7. g[i] = T(i, g[i - 1]) /\ h[i] = T(i, h[i - 1])
    BY <2>4 DEF ReadPostingsRuns
  <2> HIDE DEF T
  <2> QED BY <2>2, <2>6, <2>7
<1>2. m \in 0..m
  OBVIOUS
<1> QED BY <1>1, <1>2

LEMMA ReadPostingsNext ==
  ASSUME NEW input, NEW n \in Nat
  PROVE  /\ ReadPostings(input, 0) = NoPostings
         /\ ReadPostings(input, n + 1) = ReadPosting(input, ReadPostings(input, n))
<1>1. PICK f : ReadPostingsRuns(input, 0, f) /\ ReadPostings(input, 0) = f[0]
  <2>1. 0 \in Nat
    OBVIOUS
  <2> QED BY <2>1, ReadPostingsIs
<1>2. PICK g : ReadPostingsRuns(input, n, g) /\ ReadPostings(input, n) = g[n]
  BY ReadPostingsIs
<1>3. n + 1 \in Nat /\ n <= n + 1 /\ n + 1 \in 1..(n + 1) /\ (n + 1) - 1 = n
  OBVIOUS
<1> DEFINE k == n + 1
<1> HIDE DEF k
<1>4. PICK h : ReadPostingsRuns(input, k, h) /\ ReadPostings(input, k) = h[k]
  BY <1>3, ReadPostingsIs DEF k
<1>5. g[n] = h[n]
  BY <1>2, <1>3, <1>4, ReadPostingsAgree DEF k
<1>6. h[k] = ReadPosting(input, h[n])
  BY <1>3, <1>4 DEF ReadPostingsRuns, k
<1>7. f[0] = NoPostings
  BY <1>1 DEF ReadPostingsRuns
<1> QED BY <1>1, <1>2, <1>4, <1>5, <1>6, <1>7 DEF k

\* A posting that may follow in a list with so many positions.
Fits(posting, previous, used) ==
  /\ previous < posting.doc
  /\ posting.positions # <<>> /\ Rising(posting.positions, TRUE)
  /\ Len(posting.positions) <= MaxPositions - used

LEMMA PostingIs ==
  ASSUME NEW posting \in Posting
  PROVE  /\ posting = [doc |-> posting.doc, positions |-> posting.positions]
         /\ posting.doc \in Number /\ posting.positions \in Seq(Number)
         /\ Len(posting.positions) \in Number
  BY DEF Posting

LEMMA DocBeforeNext ==
  ASSUME NEW postings \in Seq(Posting)
  PROVE  DocBefore(postings, Len(postings) + 1) \in Number
<1> DEFINE n == Len(postings)
<1>1. n \in Nat /\ MaxValue \in Nat /\ 0 \in Number
  BY PlacesAre DEF Number
<1>2. CASE n = 0
  BY <1>1, <1>2 DEF DocBefore
<1>3. CASE n # 0
  <2>1. n \in 1..n /\ n + 1 # 1 /\ (n + 1) - 1 = n
    BY <1>1, <1>3
  <2>2. postings[n] \in Posting
    BY <2>1
  <2>3. postings[n].doc \in Number
    BY <2>2, PostingIs
  <2> HIDE DEF n
  <2>4. DocBefore(postings, n + 1) = postings[n].doc
    BY <2>1 DEF DocBefore
  <2> QED BY <2>3, <2>4 DEF n
<1> QED BY <1>2, <1>3

\* The three pieces of a posting's bytes.
Pieces(posting, previous, a, b, c) ==
  /\ a = Encode(Minus(posting.doc, previous)) /\ b = Encode(Len(posting.positions))
  /\ c = Deltas(posting.positions)
  /\ a \in Seq(Byte) /\ b \in Seq(Byte) /\ c \in Seq(Byte)
  /\ Len(a) \in Nat /\ Len(b) \in Nat /\ Len(c) \in Nat
  /\ PostingBytes(posting, previous) = (a \o b) \o c

LEMMA PiecesAre ==
  ASSUME NEW posting \in Posting, NEW previous \in Number
  PROVE  /\ Minus(posting.doc, previous) \in Number
         /\ \E a, b, c : Pieces(posting, previous, a, b, c)
<1> DEFINE a == Encode(Minus(posting.doc, previous))
           b == Encode(Len(posting.positions))
           c == Deltas(posting.positions)
<1>1. posting.doc \in Number /\ posting.positions \in Seq(Number)
      /\ Len(posting.positions) \in Number
  BY PostingIs
<1>2. Minus(posting.doc, previous) \in Number
  BY <1>1, MinusIs DEF Number
<1>3. a \in Seq(Byte)
  BY <1>2, EncodeBytes DEF Number
<1>4. b \in Seq(Byte)
  BY <1>1, EncodeBytes DEF Number
<1>5. c \in Seq(Byte)
  <2>1. <<>> \in Seq(Byte) /\ TRUE \in BOOLEAN
    OBVIOUS
  <2>2. DeltasDecode(<<>>, posting.positions, TRUE)
    BY <2>1, <1>1, ListDecodes
  <2> QED BY <2>2 DEF DeltasDecode
<1>6. PostingBytes(posting, previous) = (a \o b) \o c
  BY DEF PostingBytes
<1> HIDE DEF a, b, c
<1>7. Len(a) \in Nat /\ Len(b) \in Nat /\ Len(c) \in Nat
  BY <1>3, <1>4, <1>5
<1>8. Pieces(posting, previous, a, b, c)
  BY <1>3, <1>4, <1>5, <1>6, <1>7 DEF Pieces, a, b, c
<1> QED BY <1>2, <1>8

LEMMA AtPieces ==
  ASSUME NEW input \in Seq(Byte), NEW at \in Nat \ {0}, NEW posting, NEW previous,
         NEW a, NEW b, NEW c, Pieces(posting, previous, a, b, c)
  PROVE  /\ At(input, at, PostingBytes(posting, previous)) <=>
              /\ At(input, at, a) /\ At(input, at + Len(a), b)
              /\ At(input, (at + Len(a)) + Len(b), c)
         /\ at + Len(a) \in Nat \ {0} /\ (at + Len(a)) + Len(b) \in Nat \ {0}
         /\ PostingBytes(posting, previous) \in Seq(Byte)
         /\ Len(PostingBytes(posting, previous)) \in Nat
         /\ at + Len(PostingBytes(posting, previous)) = ((at + Len(a)) + Len(b)) + Len(c)
<1> DEFINE ab == a \o b
           all == ab \o c
<1>1. /\ a \in Seq(Byte) /\ b \in Seq(Byte) /\ c \in Seq(Byte)
      /\ Len(a) \in Nat /\ Len(b) \in Nat /\ Len(c) \in Nat
      /\ PostingBytes(posting, previous) = all
  BY DEF Pieces
<1>2. /\ At(input, at, ab) <=> At(input, at, a) /\ At(input, at + Len(a), b)
      /\ ab \in Seq(Byte) /\ Len(ab) = Len(a) + Len(b) /\ at + Len(a) \in Nat \ {0}
  BY <1>1, AtBoth
<1> HIDE DEF ab
<1>3. /\ At(input, at, all) <=> At(input, at, ab) /\ At(input, at + Len(ab), c)
      /\ all \in Seq(Byte) /\ Len(all) = Len(ab) + Len(c) /\ at + Len(ab) \in Nat \ {0}
  BY <1>1, <1>2, AtBoth
<1> HIDE DEF all
<1>4. at + Len(ab) = (at + Len(a)) + Len(b) /\ at + Len(all) = ((at + Len(a)) + Len(b)) + Len(c)
      /\ Len(all) \in Nat
  BY <1>1, <1>2, <1>3
<1> QED BY <1>1, <1>2, <1>3, <1>4

Read(postings, next, used) ==
  [failed |-> FALSE, postings |-> postings, next |-> next, used |-> used]

\* The bytes of the next posting are read as that posting, or refused.
NextPosting(input, at, postings, posting, used) ==
  ReadPosting(input, Read(postings, at, used)) =
    IF Fits(posting, DocBefore(postings, Len(postings) + 1), used)
    THEN Read(Append(postings, posting),
              at + Len(PostingBytes(posting, DocBefore(postings, Len(postings) + 1))),
              used + Len(posting.positions))
    ELSE Refused

LEMMA PostingDecodes ==
  ASSUME NEW input \in Seq(Byte), NEW at \in Nat \ {0}, NEW postings \in Seq(Posting),
         NEW posting \in Posting, NEW used \in Nat,
         At(input, at, PostingBytes(posting, DocBefore(postings, Len(postings) + 1)))
  PROVE  NextPosting(input, at, postings, posting, used)
<1> DEFINE y == DocBefore(postings, Len(postings) + 1)
           doc == posting.doc
           list == posting.positions
           d == Minus(doc, y)
           f == Len(list)
           bytes == PostingBytes(posting, y)
           read == Read(postings, at, used)
<1>1. posting = [doc |-> doc, positions |-> list] /\ doc \in Number /\ list \in Seq(Number)
      /\ f \in Number
  BY PostingIs
<1>2. y \in Number
  BY DocBeforeNext
<1> HIDE DEF y
<1>3. PICK a, b, c : Pieces(posting, y, a, b, c)
  BY <1>2, PiecesAre
<1>4. d \in 0..MaxValue /\ (doc >= y => d = doc - y) /\ (doc < y => d > MaxValue - y)
  BY <1>1, <1>2, MinusIs DEF Number
<1> DEFINE next1 == at + Len(a)
           next2 == next1 + Len(b)
<1>5. At(input, at, bytes)
  BY DEF y
<1>6. /\ At(input, at, a) /\ At(input, next1, b) /\ At(input, next2, c)
      /\ next1 \in Nat \ {0} /\ next2 \in Nat \ {0} /\ at + Len(bytes) = next2 + Len(c)
  BY <1>3, <1>5, AtPieces
<1>7. Decode(input, at) = [failed |-> FALSE, value |-> d, next |-> next1]
  <2>1. a = Encode(d)
    BY <1>3 DEF Pieces
  <2> HIDE DEF d
  <2> QED BY <2>1, <1>4, <1>6, IntegerDecodes
<1> HIDE DEF next1
<1>8. Decode(input, next1) = [failed |-> FALSE, value |-> f, next |-> next2]
  <2>1. b = Encode(f) /\ f \in 0..MaxValue
    BY <1>1, <1>3 DEF Pieces, Number
  <2> HIDE DEF f
  <2> QED BY <2>1, <1>6, IntegerDecodes
<1> HIDE DEF next2
<1>9. ReadDeltas(input, next2, f, TRUE) = Outcome(list, TRUE, next2)
  <2>1. c = Deltas(list) /\ TRUE \in BOOLEAN
    BY <1>3 DEF Pieces
  <2>2. DeltasDecode(input, list, TRUE)
    BY <2>1, <1>1, ListDecodes
  <2>3. At(input, next2, Deltas(list))
    BY <2>1, <1>6
  <2> HIDE DEF list
  <2> QED BY <2>2, <2>3, <1>6 DEF DeltasDecode, f
<1> DEFINE out == Outcome(list, TRUE, next2)
           last == next2 + Len(c)
           Stop == d = 0 \/ d > MaxValue - y \/ f = 0 \/ f > MaxPositions - used
<1>10. /\ Rising(list, TRUE) => out.failed = FALSE /\ out.values = list /\ out.next = last
       /\ ~Rising(list, TRUE) => out.failed = TRUE
  <2>1. c = Deltas(list)
    BY <1>3 DEF Pieces
  <2> HIDE DEF list
  <2> QED BY <2>1 DEF Outcome, Refused
<1>11. Fits(posting, y, used) <=> ~Stop /\ Rising(list, TRUE)
  <2>1. (list = <<>> <=> f = 0) /\ f \in Nat
    BY <1>1
  <2>2. MaxValue \in Nat /\ doc \in Nat /\ y \in Nat /\ d \in Nat /\ MaxPositions \in Nat
    BY <1>1, <1>2, <1>4, PlacesAre, CodecAssumption DEF Number
  <2>3. y < doc <=> ~(d = 0 \/ d > MaxValue - y)
    <3>1. doc <= MaxValue
      BY <1>1, <2>2 DEF Number
    <3> HIDE DEF d, doc
    <3> QED BY <3>1, <2>2, <1>4
  <2>4. f <= MaxPositions - used <=> ~(f > MaxPositions - used)
    <3> HIDE DEF f
    <3> QED BY <2>1, <2>2
  <2>5. Fits(posting, y, used) <=> /\ y < doc /\ list # <<>> /\ Rising(list, TRUE)
                                   /\ f <= MaxPositions - used
    BY DEF Fits
  <2> HIDE DEF f, d, list, doc
  <2> QED BY <2>1, <2>3, <2>4, <2>5
<1> HIDE DEF out
<1>12. ReadPosting(input, read) =
         IF Stop THEN Refused
         ELSE IF out.failed THEN Refused
         ELSE Read(Append(postings, [doc |-> y + d, positions |-> out.values]),
                   out.next, used + f)
  <2>1. /\ read.failed = FALSE /\ read.postings = postings /\ read.next = at
        /\ read.used = used
    BY DEF Read
  <2> DEFINE delta == Decode(input, read.next)
             frequency == Decode(input, delta.next)
             positions == ReadDeltas(input, frequency.next, frequency.value, TRUE)
             previous == DocBefore(read.postings, Len(read.postings) + 1)
  <2>2. delta.failed = FALSE /\ delta.value = d /\ delta.next = next1
    BY <2>1, <1>7
  <2>3. frequency.failed = FALSE /\ frequency.value = f /\ frequency.next = next2
    <3> HIDE DEF delta, f
    <3> QED BY <2>2, <1>8
  <2>4. positions = out
    <3> HIDE DEF frequency, f
    <3> QED BY <2>3, <1>9 DEF out
  <2>5. previous = y
    BY <2>1 DEF y
  <2>6. ReadPosting(input, read) =
          IF read.failed THEN Refused
          ELSE IF delta.failed THEN Refused
          ELSE IF \/ frequency.failed
                  \/ delta.value = 0 \/ delta.value > MaxValue - previous
                  \/ frequency.value = 0 \/ frequency.value > MaxPositions - read.used
          THEN Refused
          ELSE IF positions.failed THEN Refused
          ELSE Read(Append(read.postings, [doc |-> previous + delta.value,
                                           positions |-> positions.values]),
                    positions.next, read.used + frequency.value)
    BY Zenon DEF ReadPosting, Read
  <2> HIDE DEF delta, frequency, positions, previous, read, d, f
  <2> QED BY <2>1, <2>2, <2>3, <2>4, <2>5, <2>6
<1>13. Fits(posting, y, used) => y + d = doc
  <2>1. doc \in Nat /\ y \in Nat
    BY <1>1, <1>2, PlacesAre DEF Number
  <2> QED BY <2>1, <1>4 DEF Fits
<1> HIDE DEF read, Stop, d
<1>14. ReadPosting(input, read) =
         IF Fits(posting, y, used)
         THEN Read(Append(postings, posting), last, used + f) ELSE Refused
  <2>1. CASE Fits(posting, y, used)
    <3>1. ~Stop /\ ~out.failed /\ out.values = list /\ out.next = last
      BY <2>1, <1>10, <1>11
    <3>2. [doc |-> y + d, positions |-> out.values] = posting
      BY <3>1, <2>1, <1>1, <1>13
    <3> HIDE DEF f, list
    <3> QED BY <3>1, <3>2, <2>1, <1>12
  <2>2. CASE ~Fits(posting, y, used)
    <3>1. Stop \/ out.failed
      BY <2>2, <1>10, <1>11
    <3> HIDE DEF f, list
    <3> QED BY <3>1, <2>2, <1>12
  <2> QED BY <2>1, <2>2
<1>15. last = at + Len(bytes)
  BY <1>6
<1> HIDE DEF last, bytes
<1>16. ReadPosting(input, read) =
         IF Fits(posting, y, used)
         THEN Read(Append(postings, posting), at + Len(bytes), used + f) ELSE Refused
  BY <1>14, <1>15
<1> QED BY <1>16 DEF NextPosting, read, bytes, y

\* Each number above the one before: each above all before.
LEMMA RisingIncreases ==
  ASSUME NEW values \in Seq(Number)
  PROVE  Rising(values, TRUE) <=> Increasing(values)
<1> DEFINE k == Len(values)
<1>1. k \in Nat /\ DOMAIN values = 1..k
  OBVIOUS
<1>2. \A i \in 1..k : values[i] \in Nat
  <2>1. \A i \in 1..k : values[i] \in Number
    OBVIOUS
  <2> QED BY <2>1, PlacesAre DEF Number
<1>3. ASSUME Increasing(values) PROVE Rising(values, TRUE)
  <2>1. ASSUME NEW n \in 1..k PROVE Rises(Before(values, n), values[n], TRUE /\ n = 1)
    <3>1. CASE n = 1
      <4>1. Before(values, n) = 0
        BY <3>1 DEF Before
      <4>2. values[n] \in Nat
        BY <1>2
      <4> QED BY <3>1, <4>1, <4>2 DEF Rises
    <3>2. CASE n # 1
      <4>1. n - 1 \in 1..k /\ n - 1 < n
        BY <3>2, <1>1
      <4>2. values[n - 1] < values[n]
        BY <4>1, <1>1, <1>3 DEF Increasing
      <4> QED BY <3>2, <4>2 DEF Rises, Before
    <3> QED BY <3>1, <3>2
  <2> QED BY <2>1 DEF Rising
<1>4. ASSUME Rising(values, TRUE) PROVE Increasing(values)
  <2> DEFINE Low(n) == \E m \in 1..k : m < n /\ ~(values[m] < values[n])
             Bad == {n \in 1..k : Low(n)}
  <2>1. Bad = {}
    <3> SUFFICES ASSUME Bad # {} PROVE FALSE
      OBVIOUS
    <3>1. PICK n \in Bad : \A j \in Bad : n <= j
      <4>1. Bad \in SUBSET Nat
        BY <1>1
      <4> HIDE DEF Bad
      <4> QED BY <4>1, NatMin
    <3>2. n \in 1..k /\ Low(n)
      BY <3>1
    <3>3. PICK m \in 1..k : m < n /\ ~(values[m] < values[n])
      BY <3>2
    <3>4. n - 1 \in 1..k /\ ~(n <= n - 1) /\ n # 1 /\ m <= n - 1
      BY <3>2, <3>3, <1>1
    <3>5. values[n - 1] < values[n]
      <4>1. Rises(Before(values, n), values[n], TRUE /\ n = 1)
        BY <3>2, <1>4 DEF Rising
      <4> QED BY <4>1, <3>4 DEF Rises, Before
    <3>6. n - 1 \notin Bad
      <4> HIDE DEF Bad
      <4> QED BY <3>1, <3>4
    <3>7. m < n - 1 => values[m] < values[n - 1]
      BY <3>4, <3>6
    <3>8. values[m] \in Nat /\ values[n - 1] \in Nat /\ values[n] \in Nat
      BY <3>2, <3>4, <1>2
    <3>9. m # n - 1
      BY <3>3, <3>5
    <3>10. m < n - 1
      BY <3>4, <3>9, <1>1, <3>2
    <3> QED BY <3>3, <3>5, <3>7, <3>8, <3>10
  <2>2. \A m, n \in 1..k : m < n => values[m] < values[n]
    BY <2>1
  <2> QED BY <2>2, <1>1 DEF Increasing
<1> QED BY <1>3, <1>4

\* A list with one posting more.
LEMMA InOrderNext ==
  ASSUME NEW postings \in Seq(Posting), NEW posting \in Posting, Total(postings) \in Nat
  PROVE  InOrder(Append(postings, posting)) <=>
           /\ InOrder(postings)
           /\ Fits(posting, DocBefore(postings, Len(postings) + 1), Total(postings))
<1> DEFINE n == Len(postings)
           more == Append(postings, posting)
           y == DocBefore(postings, n + 1)
           t == Total(postings)
           f == Len(posting.positions)
           D(i) == more[i].doc
           Single(p) == p.doc > 0 /\ p.positions # <<>> /\ Increasing(p.positions)
<1>1. /\ n \in Nat /\ Len(more) = n + 1 /\ more[n + 1] = posting
      /\ DOMAIN more = 1..(n + 1) /\ DOMAIN postings = 1..n
      /\ \A i \in 1..n : more[i] = postings[i] /\ postings[i] \in Posting
  OBVIOUS
<1>2. posting.doc \in Number /\ posting.positions \in Seq(Number) /\ f \in Nat
  BY PostingIs
<1>3. Total(more) = t + f
  BY TotalNext
<1>4. y = IF n = 0 THEN 0 ELSE postings[n].doc
  <2>1. (n + 1) - 1 = n /\ (n = 0 <=> n + 1 = 1)
    BY <1>1
  <2> QED BY <2>1 DEF DocBefore
<1> HIDE DEF more, n, y, t
<1>5. 1..(n + 1) = 1..n \cup {n + 1} /\ \A i \in 1..n : i < n + 1
  BY <1>1
<1>6. \A i \in 1..(n + 1) : D(i) \in Nat
  <2>1. \A i \in 1..n : postings[i].doc \in Number
    BY <1>1, PostingIs
  <2>2. \A i \in 1..(n + 1) : D(i) \in Number
    BY <2>1, <1>1, <1>2, <1>5
  <2> QED BY <2>2, PlacesAre DEF Number
<1>7. /\ InOrder(more) <=> /\ \A i, j \in 1..(n + 1) : i < j => D(i) < D(j)
                           /\ \A i \in 1..(n + 1) : Single(more[i])
                           /\ t + f <= MaxPositions
  BY <1>1, <1>3 DEF InOrder, Increasing
<1>8. /\ InOrder(postings) <=> /\ \A i, j \in 1..n : i < j => D(i) < D(j)
                               /\ \A i \in 1..n : Single(more[i])
                               /\ t <= MaxPositions
  <2>1. InOrder(postings) <=>
          /\ \A i, j \in 1..n : i < j => postings[i].doc < postings[j].doc
          /\ \A i \in 1..n : Single(postings[i])
          /\ t <= MaxPositions
    BY <1>1 DEF InOrder, Increasing, t
  <2> QED BY <2>1, <1>1
<1>9. Fits(posting, y, t) <=> /\ y < posting.doc
                              /\ posting.positions # <<>> /\ Increasing(posting.positions)
                              /\ f <= MaxPositions - t
  BY <1>2, RisingIncreases DEF Fits
<1>10. t \in Nat /\ MaxPositions \in Nat
  BY CodecAssumption DEF t
<1>11. /\ t + f <= MaxPositions => t <= MaxPositions
       /\ t + f <= MaxPositions <=> f <= MaxPositions - t
  BY <1>2, <1>10
<1>12. ASSUME InOrder(more) PROVE InOrder(postings) /\ Fits(posting, y, t)
  <2>1. InOrder(postings)
    BY <1>5, <1>7, <1>8, <1>11, <1>12
  <2>2. Single(posting) /\ t + f <= MaxPositions
    BY <1>1, <1>5, <1>7, <1>12
  <2>3. y < posting.doc
    <3>1. CASE n = 0
      <4>1. posting.doc > 0 /\ posting.doc \in Nat /\ y = 0
        BY <3>1, <2>2, <1>2, <1>4, PlacesAre DEF Number
      <4> QED BY <4>1
    <3>2. CASE n # 0
      <4>1. n \in 1..n /\ n \in 1..(n + 1) /\ n + 1 \in 1..(n + 1) /\ n < n + 1
        BY <3>2, <1>1
      <4>2. D(n) < D(n + 1)
        BY <4>1, <1>7, <1>12
      <4>3. D(n) = y /\ D(n + 1) = posting.doc
        BY <3>2, <4>1, <1>1, <1>4
      <4> QED BY <4>2, <4>3
    <3> QED BY <3>1, <3>2
  <2> QED BY <2>1, <2>2, <2>3, <1>9, <1>11
<1>13. ASSUME InOrder(postings), Fits(posting, y, t) PROVE InOrder(more)
  <2>1. /\ \A i, j \in 1..n : i < j => D(i) < D(j)
        /\ \A i \in 1..n : Single(more[i])
    BY <1>8, <1>13
  <2>2. y < posting.doc /\ t + f <= MaxPositions
    BY <1>9, <1>11, <1>13
  <2>3. D(n + 1) = posting.doc
    BY <1>1
  <2>4. \A i \in 1..n : D(i) <= y /\ n # 0 /\ y = D(n)
    <3> TAKE i \in 1..n
    <3>1. n # 0 /\ n \in 1..n /\ (i < n \/ i = n)
      BY <1>1
    <3>2. y = D(n)
      BY <3>1, <1>1, <1>4
    <3>3. D(i) \in Nat /\ D(n) \in Nat
      BY <3>1, <1>5, <1>6
    <3>4. i < n => D(i) < D(n)
      BY <3>1, <2>1
    <3> HIDE DEF D
    <3> QED BY <3>1, <3>2, <3>3, <3>4
  <2>5. y \in Nat /\ posting.doc \in Nat /\ posting.doc > 0
    <3>1. posting.doc \in Nat
      BY <1>2, PlacesAre DEF Number
    <3>2. y \in Nat
      <4>1. y \in Number
        BY DocBeforeNext DEF y, n
      <4> QED BY <4>1, PlacesAre DEF Number
    <3> QED BY <3>1, <3>2, <2>2
  <2>6. ASSUME NEW i \in 1..(n + 1), NEW j \in 1..(n + 1), i < j PROVE D(i) < D(j)
    <3>1. CASE j \in 1..n
      <4>1. i \in 1..n
        BY <3>1, <2>6, <1>1
      <4> QED BY <4>1, <3>1, <2>1, <2>6
    <3>2. CASE j = n + 1
      <4>1. i \in 1..n
        BY <3>2, <2>6, <1>1
      <4>2. D(i) <= y /\ D(i) \in Nat
        BY <4>1, <2>4, <1>6
      <4> HIDE DEF D
      <4> QED BY <4>2, <3>2, <2>2, <2>3, <2>5
    <3> QED BY <3>1, <3>2, <1>5
  <2>7. \A i \in 1..(n + 1) : Single(more[i])
    <3>1. Single(posting)
      BY <2>5, <1>9, <1>13
    <3> HIDE DEF Single
    <3> QED BY <3>1, <2>1, <1>1, <1>5
  <2> HIDE DEF D, Single
  <2> QED BY <2>2, <2>6, <2>7, <1>7
<1> QED BY <1>12, <1>13 DEF more, y, t, n

\* What becomes of a posting list's bytes.
PostingsOutcome(postings) ==
  IF InOrder(postings)
  THEN Read(postings, 1 + Len(EncodePostings(postings)), Total(postings))
  ELSE Refused

PostingsDecode(input, postings) ==
  /\ EncodePostings(postings) \in Seq(Byte) /\ Total(postings) \in Nat
  /\ At(input, 1, EncodePostings(postings)) =>
       ReadPostings(input, Len(postings)) = PostingsOutcome(postings)

LEMMA PostingsDecodeNext ==
  ASSUME NEW input \in Seq(Byte), NEW postings \in Seq(Posting), NEW posting \in Posting,
         PostingsDecode(input, postings)
  PROVE  PostingsDecode(input, Append(postings, posting))
<1> DEFINE n == Len(postings)
           more == Append(postings, posting)
           y == DocBefore(postings, n + 1)
           d == PostingBytes(posting, y)
           e == EncodePostings(postings)
           t == Total(postings)
           f == Len(posting.positions)
<1>1. n \in Nat /\ Len(more) = n + 1
  OBVIOUS
<1>2. y \in Number
  BY DocBeforeNext
<1>3. d \in Seq(Byte) /\ Len(d) \in Nat
  <2> HIDE DEF y
  <2>1. PICK a, b, c : Pieces(posting, y, a, b, c)
    BY <1>2, PiecesAre
  <2> QED BY <2>1, AtPieces, 1 \in Nat \ {0}
<1>4. e \in Seq(Byte) /\ t \in Nat /\ Len(e) \in Nat
  BY DEF PostingsDecode
<1>5. EncodePostings(more) = e \o d
  BY EncodePostingsNext
<1>6. Total(more) = t + f /\ f \in Nat
  BY TotalNext, PostingIs
<1>7. InOrder(more) <=> InOrder(postings) /\ Fits(posting, y, t)
  BY <1>4, InOrderNext
<1> HIDE DEF e, d, y, n, more, t
<1>8. /\ At(input, 1, e \o d) <=> At(input, 1, e) /\ At(input, 1 + Len(e), d)
      /\ e \o d \in Seq(Byte) /\ Len(e \o d) = Len(e) + Len(d) /\ 1 + Len(e) \in Nat \ {0}
  BY <1>3, <1>4, AtBoth, 1 \in Nat \ {0}
<1>9. ASSUME At(input, 1, e \o d)
      PROVE  ReadPostings(input, n + 1) = PostingsOutcome(more)
  <2> DEFINE k == 1 + Len(e)
  <2>1. At(input, 1, e) /\ At(input, k, d) /\ k \in Nat \ {0}
    BY <1>8, <1>9
  <2>2. ReadPostings(input, n) = PostingsOutcome(postings)
    BY <2>1 DEF PostingsDecode, n, e
  <2>3. ReadPostings(input, n + 1) = ReadPosting(input, PostingsOutcome(postings))
    BY <2>2, <1>1, ReadPostingsNext
  <2>4. CASE ~InOrder(postings)
    <3>1. PostingsOutcome(postings) = Refused /\ PostingsOutcome(more) = Refused
      BY <2>4, <1>7 DEF PostingsOutcome
    <3>2. Refused.failed = TRUE
      BY DEF Refused
    <3>3. ReadPosting(input, Refused) = Refused
      BY <3>2 DEF ReadPosting
    <3> QED BY <3>1, <3>3, <2>3
  <2>5. CASE InOrder(postings)
    <3>1. PostingsOutcome(postings) = Read(postings, k, t)
      BY <2>5 DEF PostingsOutcome, e, t
    <3>2. 1 + Len(e \o d) = k + Len(d)
      BY <1>3, <1>4, <1>8
    <3> HIDE DEF k
    <3>3. ReadPosting(input, Read(postings, k, t)) =
            IF Fits(posting, y, t) THEN Read(more, k + Len(d), t + f) ELSE Refused
      <4>1. NextPosting(input, k, postings, posting, t)
        BY <2>1, <1>4, PostingDecodes DEF y, d, n
      <4> QED BY <4>1, Zenon DEF NextPosting, y, d, more, n
    <3>4. PostingsOutcome(more) =
            IF InOrder(more) THEN Read(more, k + Len(d), t + f) ELSE Refused
      BY <3>2, <1>5, <1>6 DEF PostingsOutcome
    <3> QED BY <3>1, <3>3, <3>4, <2>3, <2>5, <1>7
  <2> QED BY <2>4, <2>5
<1>10. Total(more) \in Nat
  BY <1>4, <1>6
<1> QED BY <1>1, <1>5, <1>8, <1>9, <1>10 DEF PostingsDecode, more

LEMMA PostingsDecodeFirst ==
  ASSUME NEW input
  PROVE  PostingsDecode(input, <<>>)
<1>1. EncodePostings(<<>>) = <<>> /\ <<>> \in Seq(Byte) /\ Len(<<>>) = 0
  BY EncodePostingsFirst
<1>2. Total(<<>>) = 0 /\ 0 \in Nat /\ 1 + 0 = 1
  BY TotalFirst
<1>3. ReadPostings(input, 0) = NoPostings
  BY ReadPostingsNext, 0 \in Nat
<1>4. InOrder(<<>>)
  BY <1>2, CodecAssumption DEF InOrder, Increasing
<1>5. PostingsOutcome(<<>>) = NoPostings
  BY <1>1, <1>2, <1>4 DEF PostingsOutcome, NoPostings, Read
<1> QED BY <1>1, <1>2, <1>3, <1>5 DEF PostingsDecode

\* The bytes of a term's posting list, as encode_index writes them, are read
\* by SegmentReader::open as that list; if the list is out of order, if a
\* posting has no positions or if there are too many, they are refused.
THEOREM PostingsAreDecoded ==
  ASSUME NEW input \in Seq(Byte), NEW postings \in Seq(Posting)
  PROVE  PostingsDecode(input, postings)
<1> DEFINE Bad == {n \in 0..Len(postings) : ~PostingsDecode(input, First(postings, n))}
<1>1. First(postings, Len(postings)) = postings /\ First(postings, 0) = <<>> /\ Len(postings) \in Nat
  BY FirstAll
<1>2. Bad = {}
  <2> SUFFICES ASSUME Bad # {} PROVE FALSE
    OBVIOUS
  <2>1. PICK n \in Bad : \A j \in Bad : n <= j
    <3>1. Bad \in SUBSET Nat
      BY <1>1
    <3> HIDE DEF Bad
    <3> QED BY <3>1, NatMin
  <2>2. n \in 0..Len(postings) /\ ~PostingsDecode(input, First(postings, n))
    BY <2>1
  <2>3. n # 0
    BY <2>2, <1>1, PostingsDecodeFirst
  <2>4. n \in 1..Len(postings) /\ n - 1 \in 0..Len(postings) /\ ~(n <= n - 1)
    BY <2>2, <2>3, <1>1
  <2>5. n - 1 \notin Bad
    <3> HIDE DEF Bad
    <3> QED BY <2>1, <2>4
  <2>6. PostingsDecode(input, First(postings, n - 1))
    BY <2>4, <2>5
  <2>7. /\ First(postings, n) = Append(First(postings, n - 1), postings[n])
        /\ First(postings, n - 1) \in Seq(Posting) /\ postings[n] \in Posting
    BY <2>4, FirstIs
  <2>8. PostingsDecode(input, Append(First(postings, n - 1), postings[n]))
    BY <2>6, <2>7, PostingsDecodeNext
  <2> QED BY <2>2, <2>7, <2>8
<1>3. Len(postings) \in 0..Len(postings)
  BY <1>1
<1> QED BY <1>1, <1>2, <1>3

\* What has been read, if it was not refused, is what stands there.
ArePostings(input, n, read) ==
  /\ read = Read(read.postings, read.next, read.used)
  /\ read.postings \in Seq(Posting) /\ Len(read.postings) = n /\ InOrder(read.postings)
  /\ read.used = Total(read.postings) /\ read.used \in Nat
  /\ EncodePostings(read.postings) \in Seq(Byte) /\ At(input, 1, EncodePostings(read.postings))
  /\ read.next = 1 + Len(EncodePostings(read.postings))

LEMMA PostingCanonical ==
  ASSUME NEW input \in Seq(Byte), NEW n \in Nat, NEW read, ArePostings(input, n, read),
         ~ReadPosting(input, read).failed
  PROVE  ArePostings(input, n + 1, ReadPosting(input, read))
<1> DEFINE delta == Decode(input, read.next)
           frequency == Decode(input, delta.next)
           positions == ReadDeltas(input, frequency.next, frequency.value, TRUE)
           y == DocBefore(read.postings, Len(read.postings) + 1)
           d == delta.value
           f == frequency.value
           list == positions.values
           posting == [doc |-> y + d, positions |-> list]
           more == Append(read.postings, posting)
           e == EncodePostings(read.postings)
           after == ReadPosting(input, read)
<1>1. /\ read.postings \in Seq(Posting) /\ Len(read.postings) = n /\ InOrder(read.postings)
      /\ read.used = Total(read.postings) /\ read.used \in Nat
      /\ e \in Seq(Byte) /\ At(input, 1, e) /\ read.next = 1 + Len(e) /\ Len(e) \in Nat
  BY DEF ArePostings
<1>2. read.failed = FALSE
  BY DEF ArePostings, Read
<1>3. Refused.failed = TRUE
  BY DEF Refused
<1>4. after =
        IF read.failed THEN Refused
        ELSE IF delta.failed THEN Refused
        ELSE IF \/ frequency.failed \/ d = 0 \/ d > MaxValue - y
                \/ f = 0 \/ f > MaxPositions - read.used
        THEN Refused
        ELSE IF positions.failed THEN Refused
        ELSE Read(more, positions.next, read.used + f)
  BY Zenon DEF ReadPosting, Read
<1>5. y \in Number
  BY <1>1, DocBeforeNext
<1> HIDE DEF delta, frequency, positions, y, e, after, more
<1>6. ~after.failed
  BY DEF after
<1>7. /\ ~delta.failed /\ ~frequency.failed /\ ~(d = 0) /\ ~(d > MaxValue - y)
      /\ ~(f = 0) /\ ~(f > MaxPositions - read.used) /\ ~positions.failed
      /\ after = Read(more, positions.next, read.used + f)
  BY <1>2, <1>3, <1>4, <1>6
<1> DEFINE at == read.next
           a == Encode(d)
           b == Encode(f)
           c == Deltas(list)
<1>8. at \in Nat \ {0}
  BY <1>1
<1>9. d \in 0..MaxValue /\ At(input, at, a) /\ delta.next = at + Len(a)
  BY <1>7, <1>8, IntegerCanonical DEF delta
<1>10. Len(a) \in Nat /\ delta.next \in Nat \ {0}
  BY <1>8, <1>9, EncodeBytes
<1>11. f \in 0..MaxValue /\ At(input, delta.next, b) /\ frequency.next = delta.next + Len(b)
  BY <1>7, <1>10, IntegerCanonical DEF frequency
<1>12. Len(b) \in Nat /\ frequency.next \in Nat \ {0} /\ f \in Nat
  BY <1>10, <1>11, EncodeBytes, PlacesAre
<1>13. frequency.next <= Len(input) + 1
  BY <1>11 DEF At
<1>14. IsList(input, frequency.next, f, TRUE, positions)
  BY <1>7, <1>12, <1>13, ListCanonical, TRUE \in BOOLEAN DEF positions
<1>15. /\ list \in Seq(Number) /\ Len(list) = f /\ Rising(list, TRUE)
       /\ c \in Seq(Byte) /\ At(input, frequency.next, c)
       /\ positions.next = frequency.next + Len(c) /\ Len(c) \in Nat
  <2>1. /\ list \in Seq(Number) /\ Len(list) = f /\ Rising(list, TRUE)
        /\ c \in Seq(Byte) /\ At(input, frequency.next, c)
        /\ positions.next = frequency.next + Len(c)
    BY <1>14 DEF IsList
  <2> HIDE DEF c, list
  <2>2. Len(c) \in Nat
    BY <2>1
  <2> QED BY <2>1, <2>2
<1> DEFINE doc == y + d
<1>16. doc \in 0..MaxValue /\ doc >= y /\ doc - y = d /\ y < doc
  BY <1>5, <1>7, <1>9, PlacesAre DEF Number
<1>17. Minus(doc, y) = d
  <2> HIDE DEF doc, d
  <2> QED BY <1>5, <1>16, MinusIs DEF Number
<1> HIDE DEF doc, list
<1>18. posting = [doc |-> doc, positions |-> list]
  BY DEF doc, list
<1> HIDE DEF posting
<1>19. posting.doc = doc /\ posting.positions = list
  BY <1>18
<1>20. posting \in Posting
  <2>1. doc \in Number /\ Len(list) \in Number
    BY <1>11, <1>15, <1>16 DEF Number
  <2> QED BY <2>1, <1>15, <1>18 DEF Posting
<1>21. Fits(posting, y, read.used)
  <2>1. list # <<>>
    BY <1>7, <1>15
  <2>2. f <= MaxPositions - read.used
    BY <1>1, <1>7, <1>12, CodecAssumption
  <2> QED BY <2>1, <2>2, <1>15, <1>16, <1>19 DEF Fits
<1>22. InOrder(more)
  BY <1>1, <1>20, <1>21, InOrderNext DEF more, y
<1>23. Total(more) = read.used + f /\ read.used + f \in Nat
  <2>1. Total(more) = Total(read.postings) + Len(posting.positions)
    BY <1>1, <1>20, TotalNext DEF more
  <2> QED BY <2>1, <1>1, <1>12, <1>15, <1>19
<1> DEFINE bytes == PostingBytes(posting, y)
<1>24. EncodePostings(more) = e \o bytes
  BY <1>1, <1>20, EncodePostingsNext DEF more, e, y
<1>25. PICK a1, b1, c1 : Pieces(posting, y, a1, b1, c1)
  BY <1>5, <1>20, PiecesAre
<1>26. a1 = a /\ b1 = b /\ c1 = c
  BY <1>15, <1>17, <1>19, <1>25 DEF Pieces
<1>27. Pieces(posting, y, a, b, c)
  BY <1>25, <1>26
<1> HIDE DEF a, b, c, bytes
<1>28. /\ At(input, at, bytes) /\ bytes \in Seq(Byte) /\ Len(bytes) \in Nat
       /\ at + Len(bytes) = ((at + Len(a)) + Len(b)) + Len(c)
  <2> HIDE DEF at
  <2>1. At(input, at, a) /\ At(input, at + Len(a), b) /\ At(input, (at + Len(a)) + Len(b), c)
    BY <1>9, <1>11, <1>15
  <2> QED BY <2>1, <1>8, <1>27, AtPieces DEF bytes
<1>29. positions.next = at + Len(bytes)
  BY <1>9, <1>11, <1>15, <1>28
<1>30. At(input, 1, e \o bytes) /\ e \o bytes \in Seq(Byte)
       /\ Len(e \o bytes) = Len(e) + Len(bytes)
  BY <1>1, <1>28, AtBoth, 1 \in Nat \ {0}
<1>31. positions.next = 1 + Len(e \o bytes)
  BY <1>1, <1>28, <1>29, <1>30
<1>32. more \in Seq(Posting) /\ Len(more) = n + 1
  BY <1>1, <1>20 DEF more
<1>33. after = Read(after.postings, after.next, after.used) /\ after.postings = more
       /\ after.next = positions.next /\ after.used = read.used + f
  BY <1>7 DEF Read
<1>34. ArePostings(input, n + 1, after)
  BY <1>22, <1>23, <1>24, <1>30, <1>31, <1>32, <1>33 DEF ArePostings
<1> QED BY <1>34 DEF after

\* What SegmentReader::open accepts is the encoding of the list that it
\* returns, which is in order: nothing has wrapped around.
THEOREM PostingsCanonical ==
  ASSUME NEW input \in Seq(Byte), NEW count \in Nat, ~ReadPostings(input, count).failed
  PROVE  ArePostings(input, count, ReadPostings(input, count))
<1> DEFINE R(n) == ReadPostings(input, n)
           Bad == {n \in Nat : ~R(n).failed /\ ~ArePostings(input, n, R(n))}
<1> SUFFICES ASSUME Bad # {} PROVE FALSE
  OBVIOUS
<1>1. PICK n \in Bad : \A j \in Bad : n <= j
  <2>1. Bad \in SUBSET Nat
    OBVIOUS
  <2> HIDE DEF Bad
  <2> QED BY <2>1, NatMin
<1>2. n \in Nat /\ ~R(n).failed /\ ~ArePostings(input, n, R(n))
  BY <1>1
<1>3. CASE n = 0
  <2>1. R(0) = NoPostings
    BY ReadPostingsNext, 0 \in Nat
  <2>2. R(0) = Read(<<>>, 1, 0) /\ R(0).postings = <<>> /\ R(0).next = 1 /\ R(0).used = 0
    BY <2>1 DEF NoPostings, Read
  <2>3. EncodePostings(<<>>) = <<>> /\ Total(<<>>) = 0
    BY EncodePostingsFirst, TotalFirst
  <2>4. InOrder(<<>>)
    BY <2>3, CodecAssumption DEF InOrder, Increasing
  <2>5. At(input, 1, <<>>)
    BY DEF At
  <2>6. <<>> \in Seq(Posting) /\ <<>> \in Seq(Byte) /\ Len(<<>>) = 0 /\ 1 + 0 = 1 /\ 0 \in Nat
    OBVIOUS
  <2> HIDE DEF R
  <2>7. ArePostings(input, 0, R(0))
    BY <2>2, <2>3, <2>4, <2>5, <2>6 DEF ArePostings
  <2> QED BY <2>7, <1>2, <1>3
<1>4. CASE n # 0
  <2> DEFINE m == n - 1
  <2>1. m \in Nat /\ m + 1 = n /\ ~(n <= m)
    BY <1>2, <1>4
  <2> HIDE DEF m
  <2>2. R(m + 1) = ReadPosting(input, R(m))
    BY <2>1, ReadPostingsNext
  <2> HIDE DEF R
  <2>3. R(n) = ReadPosting(input, R(m))
    BY <2>1, <2>2
  <2>4. ~R(m).failed
    <3>1. Refused.failed = TRUE
      BY DEF Refused
    <3>2. SUFFICES ASSUME R(m).failed PROVE FALSE
      OBVIOUS
    <3>3. ReadPosting(input, R(m)) = Refused
      BY <3>2 DEF ReadPosting
    <3> QED BY <3>1, <3>3, <2>3, <1>2
  <2>5. m \notin Bad
    <3> HIDE DEF Bad
    <3> QED BY <2>1, <1>1
  <2>6. ArePostings(input, m, R(m))
    BY <2>1, <2>4, <2>5
  <2>7. ~ReadPosting(input, R(m)).failed
    BY <2>3, <1>2
  <2>8. ArePostings(input, m + 1, ReadPosting(input, R(m)))
    BY <2>1, <2>6, <2>7, PostingCanonical
  <2> QED BY <2>1, <2>3, <2>8, <1>2
<1> QED BY <1>3, <1>4

-----------------------------------------------------------------------------
(* Whole inputs                                                            *)

LEMMA Whole ==
  ASSUME NEW input \in Seq(Byte)
  PROVE  /\ At(input, 1, input)
         /\ \A bytes \in Seq(Byte) :
              At(input, 1, bytes) /\ 1 + Len(bytes) = Len(input) + 1 => bytes = input
<1>1. Len(input) \in Nat /\ \A i \in 1..Len(input) : 1 + i - 1 = i
  OBVIOUS
<1>2. 1 \in Nat \ {0} /\ 1 + Len(input) <= Len(input) + 1
  BY <1>1
<1>3. At(input, 1, input)
  BY <1>1, <1>2 DEF At
<1>4. ASSUME NEW bytes \in Seq(Byte), At(input, 1, bytes), 1 + Len(bytes) = Len(input) + 1
      PROVE  bytes = input
  <2> DEFINE n == Len(input)
  <2>1. Len(bytes) \in Nat /\ Len(bytes) = n
    <3>1. Len(bytes) \in Nat
      OBVIOUS
    <3> QED BY <3>1, <1>1, <1>4
  <2>2. \A i \in 1..n : input[i] = bytes[i]
    BY <2>1, <1>1, <1>4 DEF At
  <2>3. input = [i \in 1..n |-> input[i]]
    OBVIOUS
  <2>4. bytes = [i \in 1..n |-> bytes[i]]
    BY <2>1
  <2> HIDE DEF n
  <2> QED BY <2>2, <2>3, <2>4
<1> QED BY <1>3, <1>4

\* Where a zero may not come first, each number is above the one before.
LEMMA StrictlyRising ==
  ASSUME NEW values \in Seq(Number)
  PROVE  Rising(values, FALSE) <=> ~\E n \in DOMAIN values : values[n] <= Before(values, n)
<1> DEFINE k == Len(values)
<1>1. k \in Nat /\ DOMAIN values = 1..k /\ \A i \in 1..k : values[i] \in Number
  OBVIOUS
<1> HIDE DEF k
<1>2. MaxValue \in Nat
  BY PlacesAre
<1>3. \A n \in 1..k : Rises(Before(values, n), values[n], FALSE /\ n = 1)
                        <=> ~(values[n] <= Before(values, n))
  <2> TAKE n \in 1..k
  <2>1. values[n] \in Nat
    BY <1>1, <1>2 DEF Number
  <2>2. Before(values, n) \in Nat
    <3>1. CASE n = 1
      BY <3>1 DEF Before
    <3>2. CASE n # 1
      <4>1. n - 1 \in 1..k
        BY <3>2, <1>1
      <4>2. values[n - 1] \in Nat
        BY <4>1, <1>1, <1>2 DEF Number
      <4> QED BY <4>2, <3>2 DEF Before
    <3> QED BY <3>1, <3>2
  <2> QED BY <2>1, <2>2 DEF Rises
<1> QED BY <1>1, <1>3 DEF Rising, k

LEMMA NumbersFaithful ==
  ASSUME NEW values \in Seq(Number)
  PROVE  IF EncodeDeltas(values).failed THEN ~Increasing(<<0>> \o values)
         ELSE DecodeDeltas(EncodeDeltas(values).bytes, Len(values), Len(values)).values = values
<1> DEFINE Wrong == \E n \in DOMAIN values : values[n] <= Before(values, n)
           e == Deltas(values)
           k == Len(values)
<1>1. EncodeDeltas(values) = IF Wrong THEN Refused ELSE [failed |-> FALSE, bytes |-> e]
  BY DEF EncodeDeltas
<1>2. k \in Nat /\ DOMAIN values = 1..k
  OBVIOUS
<1>3. CASE Wrong
  <2>1. EncodeDeltas(values).failed = TRUE
    BY <1>1, <1>3 DEF Refused
  <2>2. PICK n \in 1..k : values[n] <= Before(values, n)
    BY <1>2, <1>3
  <2> DEFINE z == <<0>> \o values
  <2>3. /\ DOMAIN z = 1..(k + 1) /\ z[1] = 0
        /\ \A i \in 1..k : z[i + 1] = values[i]
    BY <1>2
  <2> HIDE DEF z
  <2>4. z[n] = Before(values, n)
    <3>1. CASE n = 1
      BY <3>1, <2>3 DEF Before
    <3>2. CASE n # 1
      <4>1. n - 1 \in 1..k /\ (n - 1) + 1 = n
        BY <3>2, <1>2
      <4>2. z[(n - 1) + 1] = values[n - 1]
        BY <4>1, <2>3
      <4> QED BY <4>1, <4>2, <3>2 DEF Before
    <3> QED BY <3>1, <3>2
  <2>5. n \in 1..(k + 1) /\ n + 1 \in 1..(k + 1) /\ n < n + 1
    BY <1>2
  <2>6. z[n + 1] = values[n] /\ values[n] \in Nat
    <3>1. values[n] \in Number
      BY <1>2
    <3>2. values[n] \in Nat
      BY <3>1, PlacesAre DEF Number
    <3> QED BY <3>2, <2>3
  <2>7. z[n] \in Nat
    <3>1. CASE n = 1
      BY <3>1, <2>3
    <3>2. CASE n # 1
      <4>1. n - 1 \in 1..k
        BY <3>2, <1>2
      <4>2. values[n - 1] \in Number
        BY <4>1, <1>2
      <4>3. values[n - 1] \in Nat
        BY <4>2, PlacesAre DEF Number
      <4> QED BY <4>3, <3>2, <2>4 DEF Before
    <3> QED BY <3>1, <3>2
  <2>8. ~(z[n] < z[n + 1])
    BY <2>2, <2>4, <2>6, <2>7
  <2>9. ~Increasing(z)
    BY <2>3, <2>5, <2>8 DEF Increasing
  <2> QED BY <2>1, <2>9 DEF z
<1>4. CASE ~Wrong
  <2>1. EncodeDeltas(values).failed = FALSE /\ EncodeDeltas(values).bytes = e
    <3> HIDE DEF Wrong, e
    <3> QED BY <1>1, <1>4
  <2>2. Rising(values, FALSE)
    BY <1>4, StrictlyRising
  <2>3. e \in Seq(Byte)
    <3>1. DeltasDecode(<<>>, values, FALSE)
      BY ListDecodes, <<>> \in Seq(Byte), FALSE \in BOOLEAN
    <3> QED BY <3>1 DEF DeltasDecode
  <2>4. DeltasDecode(e, values, FALSE)
    <3> HIDE DEF e
    <3> QED BY <2>3, ListDecodes, FALSE \in BOOLEAN
  <2>5. At(e, 1, e) /\ Len(e) \in Nat
    <3> HIDE DEF e
    <3> QED BY <2>3, Whole
  <2> DEFINE read == ReadDeltas(e, 1, k, FALSE)
  <2>6. read = [failed |-> FALSE, values |-> values, next |-> 1 + Len(e)]
    <3>1. read = Outcome(values, FALSE, 1)
      BY <2>4, <2>5, 1 \in Nat \ {0} DEF DeltasDecode
    <3> QED BY <3>1, <2>2 DEF Outcome
  <2>7. 1 + Len(e) = Len(e) + 1 /\ ~(k > k)
    BY <2>5, <1>2
  <2> HIDE DEF e, k, read
  <2>8. read.failed = FALSE /\ read.values = values /\ read.next = Len(e) + 1
    BY <2>6, <2>7
  <2>9. DecodeDeltas(e, k, k) = [failed |-> FALSE, values |-> read.values]
    BY <2>7, <2>8 DEF DecodeDeltas, read
  <2>10. DecodeDeltas(e, k, k).values = values
    BY <2>8, <2>9
  <2> QED BY <2>1, <2>10 DEF k
<1> QED BY <1>3, <1>4

LEMMA PostingsFaithful ==
  ASSUME NEW postings \in Seq(Posting)
  PROVE  IF InOrder(postings)
         THEN DecodePostings(EncodePostings(postings), Len(postings)).postings = postings
         ELSE DecodePostings(EncodePostings(postings), Len(postings)).failed
<1> DEFINE e == EncodePostings(postings)
           k == Len(postings)
           read == ReadPostings(e, k)
           out == DecodePostings(e, k)
<1>1. e \in Seq(Byte)
  <2>1. PostingsDecode(<<>>, postings)
    BY PostingsAreDecoded, <<>> \in Seq(Byte)
  <2> QED BY <2>1 DEF PostingsDecode
<1>2. PostingsDecode(e, postings)
  <2> HIDE DEF e
  <2> QED BY <1>1, PostingsAreDecoded
<1>3. At(e, 1, e) /\ Len(e) \in Nat
  <2> HIDE DEF e
  <2> QED BY <1>1, Whole
<1>4. read = PostingsOutcome(postings)
  BY <1>2, <1>3 DEF PostingsDecode
<1>5. out = IF read.failed THEN Refused
            ELSE IF read.next # Len(e) + 1 THEN Refused
            ELSE [failed |-> FALSE, postings |-> read.postings]
  BY DEF DecodePostings
<1>6. CASE InOrder(postings)
  <2>1. read = Read(postings, 1 + Len(e), Total(postings))
    BY <1>4, <1>6 DEF PostingsOutcome
  <2>2. 1 + Len(e) = Len(e) + 1
    BY <1>3
  <2> HIDE DEF e, k, read, out
  <2>3. read.failed = FALSE /\ read.postings = postings /\ read.next = Len(e) + 1
    BY <2>1, <2>2 DEF Read
  <2>4. out = [failed |-> FALSE, postings |-> postings]
    BY <2>3, <1>5
  <2>5. out.postings = postings
    BY <2>4
  <2> QED BY <2>5, <1>6 DEF out, e, k
<1>7. CASE ~InOrder(postings)
  <2>1. read = Refused
    BY <1>4, <1>7 DEF PostingsOutcome
  <2> HIDE DEF e, k, read, out
  <2>2. out.failed
    BY <2>1, <1>5 DEF Refused
  <2> QED BY <2>2, <1>7 DEF out, e, k
<1> QED BY <1>6, <1>7

LEMMA BytesFaithful ==
  ASSUME NEW input \in Seq(Byte), NEW count \in Nat
  PROVE  /\ ~DecodePostings(input, count).failed =>
              /\ InOrder(DecodePostings(input, count).postings)
              /\ EncodePostings(DecodePostings(input, count).postings) = input
         /\ \A maximum :
              ~DecodeDeltas(input, count, maximum).failed =>
                EncodeDeltas(DecodeDeltas(input, count, maximum).values).bytes = input
<1>1. Refused.failed = TRUE
  BY DEF Refused
<1>2. ASSUME ~DecodePostings(input, count).failed
      PROVE  /\ InOrder(DecodePostings(input, count).postings)
             /\ EncodePostings(DecodePostings(input, count).postings) = input
  <2> DEFINE read == ReadPostings(input, count)
             out == DecodePostings(input, count)
             list == read.postings
  <2>1. out = IF read.failed THEN Refused
              ELSE IF read.next # Len(input) + 1 THEN Refused
              ELSE [failed |-> FALSE, postings |-> list]
    BY DEF DecodePostings
  <2>2. ~out.failed
    BY <1>2
  <2> HIDE DEF out, read
  <2>3. ~read.failed /\ read.next = Len(input) + 1 /\ out = [failed |-> FALSE, postings |-> list]
    BY <2>1, <2>2, <1>1
  <2>4. ArePostings(input, count, read)
    BY <2>3, PostingsCanonical DEF read
  <2>5. /\ InOrder(list) /\ EncodePostings(list) \in Seq(Byte)
        /\ At(input, 1, EncodePostings(list)) /\ read.next = 1 + Len(EncodePostings(list))
    BY <2>4 DEF ArePostings
  <2> HIDE DEF list
  <2>6. EncodePostings(list) = input
    BY <2>3, <2>5, Whole
  <2>7. out.postings = list
    BY <2>3
  <2> QED BY <2>5, <2>6, <2>7 DEF out
<1>3. ASSUME NEW maximum, ~DecodeDeltas(input, count, maximum).failed
      PROVE  EncodeDeltas(DecodeDeltas(input, count, maximum).values).bytes = input
  <2> DEFINE read == ReadDeltas(input, 1, count, FALSE)
             out == DecodeDeltas(input, count, maximum)
             list == read.values
  <2>1. out = IF count > maximum \/ read.failed THEN Refused
              ELSE IF read.next # Len(input) + 1 THEN Refused
              ELSE [failed |-> FALSE, values |-> list]
    BY DEF DecodeDeltas
  <2>2. ~out.failed
    BY <1>3
  <2> HIDE DEF out, read
  <2>3. ~read.failed /\ read.next = Len(input) + 1 /\ out = [failed |-> FALSE, values |-> list]
    BY <2>1, <2>2, <1>1
  <2>4. IsList(input, 1, count, FALSE, read)
    <3>1. 1 <= Len(input) + 1 /\ 1 \in Nat \ {0} /\ FALSE \in BOOLEAN
      OBVIOUS
    <3> QED BY <3>1, <2>3, ListCanonical DEF read
  <2>5. /\ list \in Seq(Number) /\ Rising(list, FALSE) /\ Deltas(list) \in Seq(Byte)
        /\ At(input, 1, Deltas(list)) /\ read.next = 1 + Len(Deltas(list))
    BY <2>4 DEF IsList
  <2> HIDE DEF list
  <2>6. Deltas(list) = input
    BY <2>3, <2>5, Whole
  <2>7. EncodeDeltas(list) = [failed |-> FALSE, bytes |-> Deltas(list)]
    <3>1. ~\E n \in DOMAIN list : list[n] <= Before(list, n)
      BY <2>5, StrictlyRising
    <3> QED BY <3>1 DEF EncodeDeltas
  <2>8. out.values = list
    BY <2>3
  <2>9. EncodeDeltas(list).bytes = input
    BY <2>6, <2>7
  <2> QED BY <2>8, <2>9 DEF out
<1> QED BY <1>2, <1>3

InputTyped ==
  /\ subject = "numbers" => given \in Seq(Number)
  /\ subject = "postings" => given \in Seq(Posting)
  /\ subject = "bytes" => given \in Seq(Byte)

\* Each input's elements are of its kind.
LEMMA InputsTyped == InputSpec => []InputTyped
<1>1. InputInit => InputTyped
  BY DEF InputInit, InputTyped
<1>2. InputTyped /\ [Grow]_inputVars => InputTyped'
  <2> SUFFICES ASSUME InputTyped, [Grow]_inputVars PROVE InputTyped'
    OBVIOUS
  <2>1. CASE Grow
    <3>1. PICK element \in Elements[subject] : Extend(element)
      BY <2>1 DEF Grow
    <3>2. given' = Append(given, element) /\ subject' = subject
      BY <3>1 DEF Extend
    <3>3. ASSUME NEW S, given \in Seq(S), element \in S PROVE given' \in Seq(S)
      BY <3>2, <3>3
    <3>4. /\ subject = "numbers" => element \in Number
          /\ subject = "postings" => element \in Posting
          /\ subject = "bytes" => element \in Byte
      BY <3>1, ElementsAssumption
    <3> QED BY <3>2, <3>3, <3>4 DEF InputTyped
  <2>2. CASE UNCHANGED inputVars
    BY <2>2 DEF InputTyped, inputVars
  <2> QED BY <2>1, <2>2
<1> QED BY <1>1, <1>2, PTL DEF InputSpec

\* The codec is faithful, whatever the widths of groups and integers, the
\* limit on positions and the lengths of the inputs: VariableByteCodec's
\* encode, decode, encode_deltas and decode_deltas, encode_index and the
\* compressed lists that SegmentReader::open accepts.
THEOREM CodecIsFaithful == InputSpec => []CodecFaithful
<1>1. InputTyped => CodecFaithful
  <2> SUFFICES ASSUME InputTyped PROVE CodecFaithful
    OBVIOUS
  <2>1. CASE subject = "numbers"
    <3>1. given \in Seq(Number)
      BY <2>1 DEF InputTyped
    <3>2. IF EncodeDeltas(given).failed THEN ~Increasing(<<0>> \o given)
          ELSE DecodeDeltas(EncodeDeltas(given).bytes, Len(given), Len(given)).values = given
      BY <3>1, NumbersFaithful
    <3> QED BY <3>2, <2>1 DEF CodecFaithful
  <2>2. CASE subject = "postings"
    <3>1. given \in Seq(Posting)
      BY <2>2 DEF InputTyped
    <3>2. IF InOrder(given)
          THEN DecodePostings(EncodePostings(given), Len(given)).postings = given
          ELSE DecodePostings(EncodePostings(given), Len(given)).failed
      BY <3>1, PostingsFaithful
    <3> QED BY <3>2, <2>2 DEF CodecFaithful
  <2>3. CASE subject = "bytes"
    <3>1. given \in Seq(Byte) /\ \A count \in 0..(Len(given) + 1) : count \in Nat
      BY <2>3 DEF InputTyped
    <3>2. \A count \in 0..(Len(given) + 1) :
            /\ ~DecodePostings(given, count).failed =>
                 /\ InOrder(DecodePostings(given, count).postings)
                 /\ EncodePostings(DecodePostings(given, count).postings) = given
            /\ ~DecodeDeltas(given, count, Len(given)).failed =>
                 EncodeDeltas(DecodeDeltas(given, count, Len(given)).values).bytes = given
      BY <3>1, BytesFaithful
    <3> QED BY <3>2, <2>3 DEF CodecFaithful
  <2>4. CASE subject \notin {"numbers", "postings", "bytes"}
    BY <2>4 DEF CodecFaithful
  <2> QED BY <2>1, <2>2, <2>3, <2>4
<1> QED BY <1>1, InputsTyped, PTL

=============================================================================
