-------------------------- MODULE ReplicationProofs --------------------------
(***************************************************************************)
(* GroupInv is an inductive invariant of Replication, for every set of     *)
(* nodes, operations and documents and every log limit.  The promises to   *)
(* clients and readers follow from it, and that the group implements       *)
(* ReplicatedLog.                                                          *)
(***************************************************************************)
EXTENDS Replication, ListFacts, TLAPS

-----------------------------------------------------------------------------
(* Logs that can be replayed, and replicas that are images of a prefix     *)

LatestIn(l, count) ==
  {l[i].doc : i \in {i \in 1..count :
                       \A j \in 1..count : l[j].doc.id = l[i].doc.id => j <= i}}

\* LogIndexed and LogReplayable, of any sequence of records.
Replayable(l) ==
  /\ l \in Seq(Records)
  /\ \A i \in 1..Len(l) : l[i].sequence = i /\ l[i].op # "" /\ l[i].doc.valid
  /\ \A i, j \in 1..Len(l) : l[i].op = l[j].op => i = j
  /\ \A i \in 1..Len(l) : \A j \in 1..(i - 1) :
       l[j].doc.id = l[i].doc.id => l[j].doc.version < l[i].doc.version

ReplicaType == [shard : {Shard}, epoch : {Epoch}, applied : Nat, health : Healths,
                documents : SUBSET Documents, operations : SUBSET Records]

\* AppliesPrefix and Converged, of one replica.
ImageOf(l, replica) ==
  /\ replica \in ReplicaType
  /\ replica.applied <= Len(l)
  /\ replica.operations = {l[i] : i \in 1..replica.applied}
  /\ replica.documents = LatestIn(l, replica.applied)

\* The fields of a record.
LEMMA RecordFields ==
  ASSUME NEW r \in Records
  PROVE  /\ r.shard = Shard /\ r.epoch = Epoch /\ r.op \in Operations
         /\ r.sequence \in Nat /\ r.doc \in Documents
         /\ r.doc.version \in Nat
<1>1. /\ r.shard = Shard /\ r.epoch = Epoch /\ r.op \in Operations
      /\ r.sequence \in Nat /\ r.doc \in Documents
  BY DEF Records
<1> QED BY <1>1, DocumentsAssumption

\* What a replayable log is at each position.
LEMMA ReplayableFacts ==
  ASSUME NEW l, Replayable(l)
  PROVE  /\ Len(l) \in Nat
         /\ \A i \in 1..Len(l) : /\ l[i] \in Records
                                 /\ l[i].sequence = i
                                 /\ l[i].op # ""
                                 /\ l[i].doc.valid
         /\ \A i, j \in 1..Len(l) : l[i].op = l[j].op => i = j
         /\ \A i \in 1..Len(l) : \A j \in 1..(i - 1) :
              l[j].doc.id = l[i].doc.id => l[j].doc.version < l[i].doc.version
<1>1. l \in Seq(Records)
  BY DEF Replayable
<1>2. Len(l) \in Nat /\ \A i \in 1..Len(l) : l[i] \in Records
  BY <1>1
<1>3. \A i \in 1..Len(l) : l[i].sequence = i /\ l[i].op # "" /\ l[i].doc.valid
  BY Zenon DEF Replayable
<1>4. \A i, j \in 1..Len(l) : l[i].op = l[j].op => i = j
  BY Zenon DEF Replayable
<1>5. \A i \in 1..Len(l) : \A j \in 1..(i - 1) :
        l[j].doc.id = l[i].doc.id => l[j].doc.version < l[i].doc.version
  BY Zenon DEF Replayable
<1> QED BY <1>2, <1>3, <1>4, <1>5

\* The next record of a replayable log is accepted by the index that the
\* records before it left, and leaves the latest documents again.
LEMMA NextDocument ==
  ASSUME NEW l, Replayable(l), NEW k \in Nat, k < Len(l)
  PROVE  /\ ~PutRefused(LatestIn(l, k), l[k + 1].doc)
         /\ WithDocument(LatestIn(l, k), l[k + 1].doc) = LatestIn(l, k + 1)
<1> DEFINE doc == l[k + 1].doc
<1>a. Len(l) \in Nat
  BY ReplayableFacts
<1>0. k + 1 \in 1..Len(l) /\ \A i \in 1..k : i \in 1..Len(l) /\ i \in 1..((k + 1) - 1)
  BY <1>a
<1>1. \A i \in 1..Len(l) : l[i].doc.version \in Nat
  BY ReplayableFacts, RecordFields
<1>2. \A i \in 1..k : l[i].doc.id = doc.id => l[i].doc.version < doc.version
  BY <1>0, ReplayableFacts
<1>3. ~PutRefused(LatestIn(l, k), doc)
  <2>1. doc.valid
    BY <1>0, ReplayableFacts
  <2>2. ASSUME NEW known \in LatestIn(l, k), known.id = doc.id, doc.version <= known.version
        PROVE  FALSE
    <3>1. PICK i \in 1..k : known = l[i].doc
      BY DEF LatestIn
    <3>2. known.version < doc.version
      BY <1>2, <2>2, <3>1
    <3>3. known.version \in Nat /\ doc.version \in Nat
      BY <1>0, <1>1, <3>1
    <3> QED BY <2>2, <3>2, <3>3
  <2> QED BY <2>1, <2>2 DEF PutRefused
<1>4. ASSUME NEW d \in WithDocument(LatestIn(l, k), doc)
      PROVE  d \in LatestIn(l, k + 1)
  <2>1. CASE d = doc
    <3>1. \A j \in 1..(k + 1) : j <= k + 1
      OBVIOUS
    <3> QED BY <2>1, <3>1, <1>0 DEF LatestIn
  <2>2. CASE d # doc
    <3>1. d \in LatestIn(l, k) /\ d.id # doc.id
      BY <1>4, <2>2 DEF WithDocument
    <3>2. PICK i \in 1..k : d = l[i].doc /\ \A j \in 1..k : l[j].doc.id = l[i].doc.id => j <= i
      BY <3>1 DEF LatestIn
    <3>3. i \in 1..(k + 1) /\ \A j \in 1..(k + 1) : l[j].doc.id = l[i].doc.id => j <= i
      <4>1. \A j \in 1..(k + 1) : j \in 1..k \/ j = k + 1
        OBVIOUS
      <4> QED BY <3>1, <3>2, <4>1
    <3> QED BY <3>2, <3>3 DEF LatestIn
  <2> QED BY <2>1, <2>2
<1>5. ASSUME NEW d \in LatestIn(l, k + 1)
      PROVE  d \in WithDocument(LatestIn(l, k), doc)
  <2>1. PICK i \in 1..(k + 1) :
          d = l[i].doc /\ \A j \in 1..(k + 1) : l[j].doc.id = l[i].doc.id => j <= i
    BY DEF LatestIn
  <2>2. CASE i = k + 1
    BY <2>1, <2>2 DEF WithDocument
  <2>3. CASE i # k + 1
    <3>1. i \in 1..k /\ \A j \in 1..k : j \in 1..(k + 1)
      BY <2>3
    <3>2. d \in LatestIn(l, k)
      BY <2>1, <3>1 DEF LatestIn
    <3>3. d.id # doc.id
      <4>1. k + 1 \in 1..(k + 1) /\ ~(k + 1 <= i)
        BY <3>1
      <4> QED BY <2>1, <4>1
    <3> QED BY <3>2, <3>3 DEF WithDocument
  <2> QED BY <2>2, <2>3
<1> QED BY <1>3, <1>4, <1>5

\* A replica answers a record that it has applied as a duplicate and does not
\* change; it applies the next one and is the image of one record more.
LEMMA ApplyImage ==
  ASSUME NEW l, Replayable(l), NEW R, ImageOf(l, R),
         NEW i \in 1..Len(l), i <= R.applied + 1
  PROVE  /\ Acknowledges(R, l[i])
         /\ i <= R.applied => Apply(R, l[i]) = R
         /\ i = R.applied + 1 => Apply(R, l[i]).applied = i
         /\ ImageOf(l, Apply(R, l[i]))
         /\ Apply(R, l[i]).health = R.health
<1> DEFINE k == R.applied  r == l[i]
<1>a. Len(l) \in Nat
  BY ReplayableFacts
<1>b. R \in ReplicaType /\ R.operations = {l[j] : j \in 1..k} /\ k <= Len(l)
      /\ R.documents = LatestIn(l, k)
  BY DEF ImageOf
<1>c. k \in Nat /\ R.shard = Shard /\ R.epoch = Epoch
  BY <1>b DEF ReplicaType
<1>1. r \in Records /\ r.op # "" /\ r.sequence = i
  BY ReplayableFacts
<1>d. r.shard = R.shard /\ r.epoch = R.epoch
  BY <1>1, <1>c, RecordFields
<1>2. CASE i <= k
  <2>1. i \in 1..k
    BY <1>a, <1>c, <1>2
  <2>2. r \in R.operations
    BY <2>1, <1>b
  <2>3. ApplyOutcome(R, r) = "duplicate"
    BY <1>1, <1>d, <2>2, Zenon DEF ApplyOutcome
  <2>4. Apply(R, r) = R /\ Acknowledges(R, r)
    BY <2>3 DEF Acknowledges, Apply
  <2>5. i # k + 1
    BY <1>a, <1>c, <1>2
  <2> QED BY <2>4, <2>5
<1>3. CASE i = k + 1
  <2>1. \A j \in 1..k : j \in 1..Len(l) /\ j # i
    BY <1>a, <1>b, <1>c, <1>3
  <2>2. ~Remembers(R, r.op) /\ r \notin R.operations
    <3>1. \A known \in R.operations : \E j \in 1..k : known = l[j]
      BY <1>b
    <3>2. \A j \in 1..k : l[j].op # r.op
      BY <2>1, ReplayableFacts
    <3> QED BY <3>1, <3>2 DEF Remembers
  <2>3. k < Len(l)
    BY <1>a, <1>c, <1>3
  <2>4. /\ ~PutRefused(R.documents, r.doc)
        /\ WithDocument(R.documents, r.doc) = LatestIn(l, k + 1)
    BY <1>b, <1>c, <1>3, <2>3, NextDocument
  <2>n. ~(r.sequence <= k) /\ ~(r.sequence # k + 1)
    <3>1. r.sequence = k + 1
      BY <1>1, <1>3, Zenon
    <3>2. \A x \in Nat : ~(x + 1 <= x)
      OBVIOUS
    <3> QED BY <1>c, <3>1, <3>2, Zenon
  <2>5. ApplyOutcome(R, r) = "applied"
    BY <1>1, <1>d, <2>n, <2>2, <2>4, Zenon DEF ApplyOutcome
  <2> DEFINE next == [R EXCEPT !.applied = r.sequence,
                               !.documents = WithDocument(R.documents, r.doc),
                               !.operations = R.operations \cup {r}]
  <2>6. Apply(R, r) = next
    BY <2>5, Zenon DEF Apply
  <2>c. LatestIn(l, k + 1) \subseteq Documents
    <3>1. \A j \in 1..(k + 1) : j \in 1..Len(l)
      BY <1>a, <1>c, <2>3
    <3>2. \A j \in 1..(k + 1) : l[j].doc \in Documents
      BY <3>1, ReplayableFacts, RecordFields
    <3> QED BY <3>2 DEF LatestIn
  <2>d. R.operations \cup {r} \subseteq Records
    BY <1>1, <1>b DEF ReplicaType
  <2>7. /\ next.applied = k + 1 /\ next.health = R.health
        /\ next.documents = LatestIn(l, k + 1)
        /\ next.operations = R.operations \cup {r}
        /\ next \in ReplicaType
    <3> DEFINE D == LatestIn(l, k + 1)  O == R.operations \cup {r}
    <3>1. next = [R EXCEPT !.applied = k + 1, !.documents = D, !.operations = O]
      BY <1>1, <1>3, <2>4
    <3>2. k + 1 \in Nat
      BY <1>c
    <3>3. D \in SUBSET Documents /\ O \in SUBSET Records
      BY <2>c, <2>d
    <3> HIDE DEF D, O, next
    <3>4. /\ next.applied = k + 1 /\ next.health = R.health
          /\ next.documents = D /\ next.operations = O /\ next \in ReplicaType
      BY <1>b, <3>1, <3>2, <3>3 DEF ReplicaType
    <3> QED BY <3>4 DEF D, O
  <2>8. next.operations = {l[j] : j \in 1..(k + 1)}
    <3>1. \A j : j \in 1..(k + 1) <=> j \in 1..k \/ j = k + 1
      BY <1>c
    <3> HIDE DEF next
    <3> QED BY <1>b, <1>3, <2>7, <3>1
  <2>9. k + 1 <= Len(l)
    BY <1>a, <1>c, <2>3
  <2> HIDE DEF next
  <2>10. ImageOf(l, next)
    BY <2>7, <2>8, <2>9 DEF ImageOf
  <2>11. Acknowledges(R, r)
    BY <2>5 DEF Acknowledges
  <2>12. ~(i <= k)
    BY <1>3, <1>c
  <2> QED BY <1>3, <2>6, <2>7, <2>10, <2>11, <2>12
<1>4. i <= k \/ i = k + 1
  BY <1>a, <1>c
<1> QED BY <1>2, <1>3, <1>4

\* The image of a prefix stays one when the log grows.
LEMMA AppendImage ==
  ASSUME NEW l \in Seq(Records), NEW r \in Records, NEW R, ImageOf(l, R)
  PROVE  ImageOf(Append(l, r), R)
<1>1. /\ Len(l) \in Nat /\ R.applied \in Nat /\ Len(Append(l, r)) = Len(l) + 1
      /\ \A i \in 1..Len(l) : Append(l, r)[i] = l[i]
  BY DEF ImageOf, ReplicaType
<1>2. \A i \in 1..R.applied : Append(l, r)[i] = l[i]
  BY <1>1 DEF ImageOf
<1>3. LatestIn(Append(l, r), R.applied) = LatestIn(l, R.applied)
  BY <1>2 DEF LatestIn
<1>4. R.applied <= Len(Append(l, r))
  BY <1>1 DEF ImageOf
<1>5. R.operations = {Append(l, r)[i] : i \in 1..R.applied}
  BY <1>2 DEF ImageOf
<1> QED BY <1>3, <1>4, <1>5 DEF ImageOf

\* Changing the health of a replica changes nothing else.
LEMMA HealthImage ==
  ASSUME NEW l, NEW R, ImageOf(l, R), NEW h \in Healths
  PROVE  LET S == [R EXCEPT !.health = h]
         IN /\ ImageOf(l, S) /\ S.health = h
            /\ S.applied = R.applied /\ S.operations = R.operations
<1> DEFINE S == [R EXCEPT !.health = h]
<1>1. R \in ReplicaType
  BY DEF ImageOf
<1>2. /\ S \in ReplicaType /\ S.health = h /\ S.applied = R.applied
      /\ S.operations = R.operations /\ S.documents = R.documents
  BY <1>1 DEF ReplicaType
<1> HIDE DEF S
<1>3. ImageOf(l, S)
  BY <1>2 DEF ImageOf
<1> QED BY <1>2, <1>3 DEF S

-----------------------------------------------------------------------------
(* GroupInv in terms of images                                             *)

\* What GroupInv says of the log and the replicas.
LEMMA InvImages ==
  ASSUME GroupInv
  PROVE  /\ Replayable(log)
         /\ \A n \in Nodes : ImageOf(log, replicas[n])
<1>1. TypeOK /\ LogIndexed /\ LogReplayable /\ AppliesPrefix /\ Converged
  BY DEF GroupInv
<1>2. Replayable(log)
  <2>1. log \in Seq(Records)
    BY <1>1 DEF TypeOK
  <2>2. \A i \in 1..Len(log) : log[i].sequence = i /\ log[i].op # ""
    BY <1>1, Zenon DEF LogIndexed
  <2>3. \A i, j \in 1..Len(log) : log[i].op = log[j].op => i = j
    BY <1>1, Zenon DEF LogIndexed
  <2> QED BY <1>1, <2>1, <2>2, <2>3, Zenon DEF Replayable, LogReplayable
<1>3. ASSUME NEW n \in Nodes PROVE ImageOf(log, replicas[n])
  <2>1. replicas[n] \in ReplicaType
    BY <1>1 DEF TypeOK, ReplicaType
  <2>2. /\ replicas[n].applied <= Len(log)
        /\ replicas[n].operations = {log[i] : i \in 1..replicas[n].applied}
    BY <1>1 DEF AppliesPrefix
  <2>3. replicas[n].documents = LatestIn(log, replicas[n].applied)
    BY <1>1, Zenon DEF Converged, LatestOf, LatestIn
  <2> QED BY <2>1, <2>2, <2>3 DEF ImageOf
<1> QED BY <1>2, <1>3

\* The types of the variables other than the replicas.
RestOK ==
  /\ nextSequence \in Nat
  /\ indices \subseteq [op : Operations, at : Nat]
  /\ replay \in [node : Nodes, health : Healths, next : Nat]
  /\ receipts \subseteq [op : Operations, sequence : Nat, mode : Modes]
  /\ routes \in [Readers -> [node : Nodes \cup {NoNode}, floor : Int]]

\* The log can be replayed and every replica is the image of a prefix.
Images ==
  /\ Replayable(log)
  /\ replicas = [n \in Nodes |-> replicas[n]]
  /\ \A n \in Nodes : ImageOf(log, replicas[n])

\* GroupInv, in the form in which the steps prove it.
GroupParts ==
  RestOK /\ LogIndexed /\ Images /\ ServingCaughtUp /\ ReplayOK /\ ReceiptsOK /\ ReadsFresh

\* GroupInv follows from the images and the parts that relate other state.
LEMMA InvFromParts == GroupParts => GroupInv
<1> SUFFICES ASSUME GroupParts PROVE GroupInv
  OBVIOUS
<1>0. /\ RestOK /\ LogIndexed /\ Images
      /\ ServingCaughtUp /\ ReplayOK /\ ReceiptsOK /\ ReadsFresh
  BY DEF GroupParts
<1>1. \A n \in Nodes :
        /\ replicas[n] \in ReplicaType
        /\ replicas[n].applied <= Len(log)
        /\ replicas[n].operations = {log[i] : i \in 1..replicas[n].applied}
        /\ replicas[n].documents = LatestIn(log, replicas[n].applied)
  BY <1>0, Zenon DEF Images, ImageOf
<1>2. TypeOK
  <2>1. log \in Seq(Records)
    BY <1>0 DEF Images, Replayable
  <2>2. replicas \in [Nodes -> ReplicaType]
    BY <1>0, <1>1 DEF Images
  <2> QED BY <1>0, <2>1, <2>2, Zenon DEF TypeOK, RestOK, ReplicaType
<1>3. LogReplayable
  BY <1>0, ReplayableFacts, Zenon DEF Images, LogReplayable
<1>4. AppliesPrefix /\ Converged
  BY <1>1, Zenon DEF AppliesPrefix, Converged, LatestOf, LatestIn
<1> QED BY <1>0, <1>2, <1>3, <1>4 DEF GroupInv

\* Every part holds in a state of the invariant.
LEMMA PartsFromInv ==
  ASSUME GroupInv
  PROVE  GroupParts
<1>1. /\ TypeOK /\ LogIndexed /\ ServingCaughtUp
      /\ ReplayOK /\ ReceiptsOK /\ ReadsFresh
  BY DEF GroupInv
<1>2. RestOK
  BY <1>1 DEF TypeOK, RestOK
<1>3. replicas = [n \in Nodes |-> replicas[n]]
  BY <1>1 DEF TypeOK
<1>4. Images
  BY <1>3, InvImages DEF Images
<1> QED BY <1>1, <1>2, <1>4 DEF GroupParts

\* What the primary accepts keeps the log replayable: it holds the latest
\* version of every logged document, and the new one is later.
LEMMA AdmitsReplayable ==
  ASSUME GroupInv, NEW op \in Operations, NEW doc \in Documents, Admits(op, doc)
  PROVE  /\ NewRecord(op, doc) \in Records
         /\ Replayable(Append(log, NewRecord(op, doc)))
         /\ \A i \in 1..Len(log) : log[i].op # op
<1> DEFINE r == NewRecord(op, doc)
           R == replicas[Primary]
           l == Append(log, r)
           N == Len(log)
<1>a. Replayable(log) /\ ImageOf(log, R)
  BY InvImages, NodesAssumption
<1>b. N \in Nat /\ R.applied = N /\ nextSequence = N + 1
  <2>1. ServingCaughtUp /\ LogIndexed
    BY DEF GroupInv
  <2> QED BY <1>a, <2>1, ReplayableFacts, NodesAssumption DEF ServingCaughtUp, LogIndexed
<1>c. r \in Records /\ r.op = op /\ r.sequence = N + 1 /\ r.doc = doc
  BY <1>b DEF NewRecord, Records
<1>d. R.documents = LatestIn(log, N) /\ R.operations = {log[i] : i \in 1..N}
  BY <1>a, <1>b DEF ImageOf
<1>e. \A i \in 1..N : log[i].op # op
  <2>1. ~Committed(op)
    BY DEF Admits
  <2>2. indices = {[op |-> log[i].op, at |-> i] : i \in 1..N}
    BY DEF GroupInv, LogIndexed
  <2>3. ASSUME NEW i \in 1..N, log[i].op = op PROVE FALSE
    <3>1. [op |-> op, at |-> i] \in indices
      BY <2>2, <2>3
    <3> QED BY <2>1, <3>1 DEF Committed
  <2> QED BY <2>3
<1>f. r \notin R.operations
  BY <1>c, <1>d, <1>e
<1>g. op # "" /\ ~PutRefused(R.documents, doc)
  <2>1. Acknowledges(R, r)
    BY DEF Admits
  <2>2. ApplyOutcome(R, r) = "applied"
    BY <1>f, <2>1 DEF Acknowledges, ApplyOutcome
  <2>3. r.op # "" /\ ~PutRefused(R.documents, r.doc)
    <3> HIDE DEF r
    <3> QED BY <2>2 DEF ApplyOutcome
  <2> QED BY <2>3, <1>c
<1>h. doc.valid
  BY <1>g DEF PutRefused
<1> HIDE DEF r
<1>i. ASSUME NEW j \in 1..N, log[j].doc.id = doc.id
      PROVE  log[j].doc.version < doc.version
  <2> DEFINE T == {i \in 1..N : log[i].doc.id = doc.id}
  <2>1. PICK m \in T : \A i \in T : i <= m
    <3>1. T \in SUBSET Nat /\ j \in T /\ \A x \in T : x <= N
      BY <1>b, <1>i
    <3> HIDE DEF T
    <3> QED BY <1>b, <3>1, NatMax
  <2>2. m \in 1..N /\ log[m].doc.id = doc.id
    BY <2>1
  <2>3. log[m].doc \in LatestIn(log, N)
    BY <2>1, <2>2 DEF LatestIn
  <2>4. ~(doc.version <= log[m].doc.version)
    BY <1>d, <1>g, <2>2, <2>3 DEF PutRefused
  <2>5. log[m] \in Records /\ log[j] \in Records
    BY <1>a, <2>2, ReplayableFacts
  <2>6. doc.version \in Nat /\ log[m].doc.version \in Nat /\ log[j].doc.version \in Nat
    BY <2>5, RecordFields, DocumentsAssumption
  <2>7. CASE j = m
    BY <2>4, <2>6, <2>7
  <2>8. CASE j # m
    <3>1. j <= m
      BY <1>i, <2>1
    <3>2. j \in 1..(m - 1)
      BY <3>1, <2>2, <2>8, <1>b
    <3>3. log[j].doc.version < log[m].doc.version
      BY <1>a, <1>i, <2>2, <3>2, ReplayableFacts
    <3> QED BY <2>4, <2>6, <3>3
  <2> QED BY <2>7, <2>8
<1>j. log \in Seq(Records)
  BY <1>a DEF Replayable
<1>k. /\ l \in Seq(Records) /\ Len(l) = N + 1 /\ l[N + 1] = r
      /\ \A i \in 1..N : l[i] = log[i]
  BY <1>c, <1>j
<1>m. \A i \in 1..(N + 1) : i \in 1..N \/ i = N + 1
  BY <1>b
<1> HIDE DEF l
<1>r. /\ \A i \in 1..N : log[i].sequence = i /\ log[i].op # "" /\ log[i].doc.valid
      /\ \A i, j \in 1..N : log[i].op = log[j].op => i = j
  BY <1>a, Zenon DEF Replayable
<1>n. ASSUME NEW i \in 1..(N + 1)
      PROVE  l[i].sequence = i /\ l[i].op # "" /\ l[i].doc.valid
  <2>1. CASE i \in 1..N
    BY <1>k, <1>r, <2>1, Zenon
  <2>2. CASE i = N + 1
    BY <1>c, <1>g, <1>h, <1>k, <2>2, Zenon
  <2> QED BY <1>m, <2>1, <2>2
<1>o. ASSUME NEW i \in 1..(N + 1), NEW j \in 1..(N + 1), l[i].op = l[j].op
      PROVE  i = j
  <2>1. CASE i \in 1..N /\ j \in 1..N
    BY <1>k, <1>o, <1>r, <2>1, Zenon
  <2>2. CASE i \in 1..N /\ j = N + 1
    BY <1>c, <1>e, <1>k, <1>o, <2>2, Zenon
  <2>3. CASE i = N + 1 /\ j \in 1..N
    BY <1>c, <1>e, <1>k, <1>o, <2>3, Zenon
  <2> QED BY <1>m, <2>1, <2>2, <2>3
<1>p. ASSUME NEW i \in 1..(N + 1), NEW j \in 1..(i - 1), l[j].doc.id = l[i].doc.id
      PROVE  l[j].doc.version < l[i].doc.version
  <2>1. j \in 1..N
    BY <1>b
  <2>2. CASE i \in 1..N
    BY <1>a, <1>k, <1>p, <2>1, <2>2, ReplayableFacts
  <2>3. CASE i = N + 1
    BY <1>c, <1>i, <1>k, <1>p, <2>1, <2>3
  <2> QED BY <1>m, <2>2, <2>3
<1>q. Replayable(l)
  BY <1>k, <1>n, <1>o, <1>p, Zenon DEF Replayable
<1> QED BY <1>c, <1>e, <1>q DEF l, r

\* Numbers of the state.
LEMMA Counts ==
  ASSUME GroupInv
  PROVE  /\ Len(log) \in Nat
         /\ \A n \in Nodes : replicas[n].applied \in Nat /\ replicas[n].applied <= Len(log)
         /\ \A n \in Nodes : replicas[n].health \in Healths
         /\ \A n \in Nodes : Reached(n) => replicas[n].applied = Len(log)
<1>1. Len(log) \in Nat
  BY InvImages, ReplayableFacts
<1>2. ASSUME NEW n \in Nodes
      PROVE  /\ replicas[n].applied \in Nat /\ replicas[n].applied <= Len(log)
             /\ replicas[n].health \in Healths
  <2>1. ImageOf(log, replicas[n])
    BY InvImages
  <2> QED BY <2>1 DEF ImageOf, ReplicaType
<1>3. \A n \in Nodes : Reached(n) => replicas[n].applied = Len(log)
  BY DEF GroupInv, ServingCaughtUp, Reached
<1> QED BY <1>1, <1>2, <1>3

-----------------------------------------------------------------------------
(* Steps that leave the log alone                                          *)

\* An unchanged log stays indexed.
LEMMA LogUnchanged ==
  ASSUME LogIndexed, log' = log, nextSequence' = nextSequence, indices' = indices
  PROVE  LogIndexed'
BY Zenon DEF LogIndexed

\* When the replicas only move forward along an unchanged log, what was said
\* of them in receipts and to readers still holds.
LEMMA ForwardSteps ==
  ASSUME GroupInv, log' = log, nextSequence' = nextSequence, indices' = indices,
         receipts' = receipts, routes' = routes,
         replicas' = [n \in Nodes |-> replicas'[n]],
         \A n \in Nodes : /\ ImageOf(log, replicas'[n])
                          /\ replicas'[n].applied >= replicas[n].applied
  PROVE  LogIndexed' /\ Images' /\ ReceiptsOK' /\ ReadsFresh'
<1>1. LogIndexed /\ ReceiptsOK /\ ReadsFresh /\ TypeOK /\ Replayable(log)
  BY InvImages DEF GroupInv
<1>2. LogIndexed'
  BY <1>1, LogUnchanged
<1>3. Images'
  BY <1>1, Zenon DEF Images
<1>4. \A n \in Nodes : replicas[n].applied \in Nat /\ replicas'[n].applied \in Nat
  <2>1. \A n \in Nodes : replicas'[n] \in ReplicaType
    BY DEF ImageOf
  <2> QED BY <2>1, Counts DEF ReplicaType
<1>5. ReceiptsOK'
  <2> SUFFICES ASSUME NEW receipt \in receipts
               PROVE  /\ receipt.sequence \in 1..Len(log)
                      /\ log[receipt.sequence].op = receipt.op
                      /\ receipt.mode = "all_replicas" =>
                           \A n \in Nodes : replicas'[n].applied >= receipt.sequence
    BY Zenon DEF ReceiptsOK
  <2>1. /\ receipt.sequence \in 1..Len(log)
        /\ log[receipt.sequence].op = receipt.op
        /\ receipt.mode = "all_replicas" =>
             \A n \in Nodes : replicas[n].applied >= receipt.sequence
    BY <1>1 DEF ReceiptsOK
  <2>2. receipt.sequence \in Int
    BY <2>1, Counts
  <2> QED BY <1>4, <2>1, <2>2
<1>6. ReadsFresh'
  <2> SUFFICES ASSUME NEW r \in Readers, routes[r].node # NoNode
               PROVE  replicas'[routes[r].node].applied >= routes[r].floor
    BY DEF ReadsFresh
  <2>1. routes[r].node \in Nodes /\ routes[r].floor \in Int
    BY <1>1 DEF TypeOK
  <2>2. replicas[routes[r].node].applied >= routes[r].floor
    BY <1>1 DEF ReadsFresh
  <2> QED BY <1>4, <2>1, <2>2
<1> QED BY <1>2, <1>3, <1>5, <1>6

\* The invariant holds initially.
LEMMA InitParts == Init => GroupParts
<1> SUFFICES ASSUME Init PROVE GroupParts
  OBVIOUS
<1>0. /\ log = <<>> /\ nextSequence = 1 /\ indices = {} /\ receipts = {}
      /\ replicas = [n \in Nodes |-> EmptyReplica(Shard, Epoch)]
      /\ replay = Free /\ routes = [r \in Readers |-> [node |-> NoNode, floor |-> 0]]
  BY DEF Init
<1>1. Len(log) = 0 /\ \A i : i \notin 1..0
  BY <1>0
<1>2. RestOK
  BY <1>0, NodesAssumption DEF RestOK, Free, Healths
<1>3. LogIndexed
  BY <1>0, <1>1, LimitAssumption DEF LogIndexed
<1>4. Replayable(log)
  <2>1. log \in Seq(Records)
    BY <1>0
  <2> QED BY <1>1, <2>1 DEF Replayable
<1>5. ASSUME NEW n \in Nodes PROVE ImageOf(log, replicas[n])
  <2> DEFINE E == EmptyReplica(Shard, Epoch)
  <2>1. /\ E \in ReplicaType /\ E.applied = 0
        /\ E.operations = {} /\ E.documents = {}
    BY DEF EmptyReplica, ReplicaType, Healths
  <2>2. LatestIn(log, 0) = {} /\ {log[i] : i \in 1..0} = {}
    BY <1>1 DEF LatestIn
  <2>3. replicas[n] = E
    BY <1>0
  <2> HIDE DEF E
  <2>4. 0 <= Len(log)
    BY <1>1
  <2>5. ImageOf(log, E)
    BY <2>1, <2>2, <2>4, Zenon DEF ImageOf
  <2> QED BY <2>3, <2>5
<1>6. Images
  BY <1>0, <1>4, <1>5 DEF Images
<1>7. ServingCaughtUp
  BY <1>0, <1>1 DEF ServingCaughtUp, EmptyReplica
<1>8. ReplayOK /\ ReceiptsOK /\ ReadsFresh
  BY <1>0 DEF ReplayOK, Locked, Free, ReceiptsOK, ReadsFresh
<1> QED BY <1>2, <1>3, <1>6, <1>7, <1>8 DEF GroupParts

\* Taking a replica out of service changes its health only.
LEMMA DownParts ==
  ASSUME GroupInv, NEW n \in Nodes, NEW health \in {"unhealthy", "draining"},
         SetHealthDown(n, health)
  PROVE  /\ GroupParts'
         /\ \A m \in Nodes : replicas'[m].applied >= replicas[m].applied
<1> DEFINE S == [replicas[n] EXCEPT !.health = health]
<1>0. /\ ~Locked /\ UNCHANGED <<log, nextSequence, indices, replay, receipts, routes>>
      /\ replicas' = [replicas EXCEPT ![n].health = health]
  BY DEF SetHealthDown
<1>1. replicas = [m \in Nodes |-> replicas[m]] /\ RestOK /\ ServingCaughtUp /\ Replayable(log)
  BY PartsFromInv DEF GroupParts, Images
<1>2. /\ ImageOf(log, S) /\ S.applied = replicas[n].applied /\ S.health = health
  <2>1. health \in Healths /\ ImageOf(log, replicas[n])
    BY InvImages DEF Healths
  <2> QED BY <2>1, HealthImage
<1>3. \A m \in Nodes : replicas'[m] = IF m = n THEN S ELSE replicas[m]
  BY <1>0, <1>1
<1>4. replicas' = [m \in Nodes |-> replicas'[m]]
  BY <1>0, <1>1
<1> HIDE DEF S
<1>5. \A m \in Nodes : /\ ImageOf(log, replicas'[m])
                       /\ replicas'[m].applied = replicas[m].applied
  BY <1>2, <1>3, InvImages
<1>6. \A m \in Nodes : replicas'[m].applied >= replicas[m].applied
  BY <1>5, Counts
<1>7. LogIndexed' /\ Images' /\ ReceiptsOK' /\ ReadsFresh'
  BY <1>0, <1>4, <1>5, <1>6, ForwardSteps
<1>8. ServingCaughtUp'
  BY <1>0, <1>1, <1>2, <1>3, <1>5 DEF ServingCaughtUp, Serving
<1>9. RestOK' /\ ReplayOK'
  BY <1>0, <1>1 DEF RestOK, ReplayOK, Locked
<1> QED BY <1>6, <1>7, <1>8, <1>9 DEF GroupParts

\* The start of a catch-up changes no replica.
LEMMA UpParts ==
  ASSUME GroupInv, NEW n \in Nodes, NEW health \in {"healthy", "suspect"},
         SetHealthUp(n, health)
  PROVE  GroupParts'
<1>0. /\ UNCHANGED <<log, nextSequence, indices, replicas, receipts, routes>>
      /\ replay' = [node |-> n, health |-> health, next |-> 1]
  BY DEF SetHealthUp
<1>1. RestOK /\ LogIndexed /\ Images /\ ServingCaughtUp /\ ReceiptsOK /\ ReadsFresh
  BY PartsFromInv DEF GroupParts
<1>2. LogIndexed' /\ Images' /\ ServingCaughtUp' /\ ReceiptsOK' /\ ReadsFresh'
  <2>0. log' = log /\ nextSequence' = nextSequence /\ indices' = indices /\ replicas' = replicas
    BY <1>0
  <2>1. LogIndexed' /\ Images'
    <3>1. LogIndexed'
      BY <1>1, <2>0, LogUnchanged
    <3>2. Images'
      BY <1>1, <2>0, Zenon DEF Images
    <3> QED BY <3>1, <3>2
  <2>2. ServingCaughtUp'
    BY <1>0, <1>1, Zenon DEF ServingCaughtUp, Serving
  <2>3. ReceiptsOK' /\ ReadsFresh'
    BY <1>0, <1>1, Zenon DEF ReceiptsOK, ReadsFresh
  <2> QED BY <2>1, <2>2, <2>3
<1>3. RestOK'
  BY <1>0, <1>1 DEF RestOK, Healths
<1>4. ReplayOK'
  <2>1. replicas[n].applied >= 0 /\ 1 <= Len(log) + 1
    BY Counts
  <2> QED BY <1>0, <2>1 DEF ReplayOK, Serving
<1> QED BY <1>2, <1>3, <1>4 DEF GroupParts

\* A record of the catch-up loop is acknowledged, and moves the replica
\* forward or finds it there already.
LEMMA ReplayParts ==
  ASSUME GroupInv, ReplayRecord
  PROVE  /\ GroupParts'
         /\ \A m \in Nodes : replicas'[m].applied >= replicas[m].applied
<1> DEFINE n == replay.node  i == replay.next  R == replicas[n]  A == Apply(R, log[i])
<1>0. /\ Locked /\ i <= Len(log)
      /\ replicas' = [replicas EXCEPT ![n] = A]
      /\ replay' = IF Acknowledges(R, log[i]) THEN [replay EXCEPT !.next = i + 1] ELSE Free
      /\ UNCHANGED <<log, nextSequence, indices, receipts, routes>>
  BY DEF ReplayRecord
<1>1. /\ replicas = [m \in Nodes |-> replicas[m]] /\ RestOK
      /\ ServingCaughtUp /\ ReplayOK /\ Replayable(log)
  BY PartsFromInv DEF GroupParts, Images
<1>2. n \in Nodes /\ i \in Nat /\ replay \in [node : Nodes, health : Healths, next : Nat]
  BY <1>1 DEF RestOK
<1>3. i # 0 /\ R.applied >= i - 1 /\ Serving([health |-> replay.health])
  BY <1>0, <1>1 DEF ReplayOK, Locked
<1>4. i \in 1..Len(log) /\ i <= R.applied + 1 /\ R.applied \in Nat
  BY <1>0, <1>2, <1>3, Counts
<1>5. ImageOf(log, R)
  BY <1>2, InvImages
<1>6. /\ Acknowledges(R, log[i]) /\ ImageOf(log, A) /\ A.health = R.health
      /\ i <= R.applied => A = R
      /\ i = R.applied + 1 => A.applied = i
  BY <1>1, <1>4, <1>5, ApplyImage
<1> HIDE DEF A
<1>7. A.applied >= R.applied /\ A.applied >= i /\ A.applied \in Nat /\ A.applied <= Len(log)
  <2>1. A.applied \in Nat /\ A.applied <= Len(log)
    BY <1>6 DEF ImageOf, ReplicaType
  <2>2. CASE i <= R.applied
    BY <1>4, <1>6, <2>1, <2>2
  <2>3. CASE i = R.applied + 1
    BY <1>4, <1>6, <2>1, <2>3
  <2>4. i <= R.applied \/ i = R.applied + 1
    BY <1>4
  <2> QED BY <2>1, <2>2, <2>3, <2>4
<1>8. /\ \A m \in Nodes : replicas'[m] = IF m = n THEN A ELSE replicas[m]
      /\ replicas' = [m \in Nodes |-> replicas'[m]]
  BY <1>0, <1>1
<1>9. \A m \in Nodes : ImageOf(log, replicas'[m])
  BY <1>6, <1>8, InvImages
<1>10. \A m \in Nodes : replicas'[m].applied >= replicas[m].applied
  BY <1>7, <1>8, Counts
<1>11. LogIndexed' /\ Images' /\ ReceiptsOK' /\ ReadsFresh'
  BY <1>0, <1>8, <1>9, <1>10, ForwardSteps
<1>12. ServingCaughtUp'
  <2> SUFFICES ASSUME NEW m \in Nodes, m = Primary \/ Serving(replicas'[m])
               PROVE  replicas'[m].applied = Len(log)
    BY <1>0 DEF ServingCaughtUp, Serving
  <2>1. CASE m # n
    BY <1>1, <1>8, <2>1 DEF ServingCaughtUp
  <2>2. CASE m = n
    <3>1. R.applied = Len(log)
      BY <1>1, <1>6, <1>8, <2>2 DEF ServingCaughtUp, Serving
    <3>2. A.applied = Len(log)
      BY <3>1, <1>4, <1>7
    <3> QED BY <1>8, <2>2, <3>2
  <2> QED BY <2>1, <2>2
<1>13. replay' = [replay EXCEPT !.next = i + 1]
  BY <1>0, <1>6
<1>14. RestOK'
  <2>1. replay' \in [node : Nodes, health : Healths, next : Nat]
    BY <1>2, <1>13
  <2> QED BY <1>0, <1>1, <2>1, Zenon DEF RestOK
<1>15. ReplayOK'
  <2>1. replay'.node = n /\ replay'.health = replay.health /\ replay'.next = i + 1
    BY <1>2, <1>13
  <2>2. i + 1 <= Len(log) + 1 /\ (i + 1) - 1 = i
    BY <1>2, <1>0, Counts
  <2>3. replicas'[n].applied >= i
    BY <1>2, <1>7, <1>8
  <2> QED BY <1>0, <1>3, <2>1, <2>2, <2>3 DEF ReplayOK, Serving
<1> QED BY <1>10, <1>11, <1>12, <1>14, <1>15 DEF GroupParts

\* The loop has ended: the replica has applied the whole log when it is
\* given its new health.
LEMMA DoneParts ==
  ASSUME GroupInv, ReplayDone
  PROVE  /\ GroupParts'
         /\ \A m \in Nodes : replicas'[m].applied >= replicas[m].applied
<1> DEFINE n == replay.node  R == replicas[n]  S == [R EXCEPT !.health = replay.health]
<1>0. /\ replay.next > Len(log)
      /\ replicas' = [replicas EXCEPT ![n].health = replay.health]
      /\ replay' = Free /\ UNCHANGED <<log, nextSequence, indices, receipts, routes>>
  BY DEF ReplayDone
<1>1. /\ replicas = [m \in Nodes |-> replicas[m]] /\ RestOK
      /\ ServingCaughtUp /\ ReplayOK /\ Replayable(log)
  BY PartsFromInv DEF GroupParts, Images
<1>2. n \in Nodes /\ replay.next \in Nat /\ replay.health \in Healths
  BY <1>1 DEF RestOK
<1>3. R.applied = Len(log)
  <2>1. Locked
    BY <1>0, <1>2, Counts DEF Locked
  <2>2. replay.next <= Len(log) + 1 /\ R.applied >= replay.next - 1
    BY <1>1, <2>1 DEF ReplayOK
  <2> QED BY <1>0, <1>2, <2>2, Counts
<1>4. ImageOf(log, S) /\ S.applied = R.applied /\ S.health = replay.health
  BY <1>2, InvImages, HealthImage
<1>5. /\ \A m \in Nodes : replicas'[m] = IF m = n THEN S ELSE replicas[m]
      /\ replicas' = [m \in Nodes |-> replicas'[m]]
  BY <1>0, <1>1
<1> HIDE DEF S
<1>6. \A m \in Nodes : /\ ImageOf(log, replicas'[m])
                       /\ replicas'[m].applied = replicas[m].applied
  BY <1>4, <1>5, InvImages
<1>7. \A m \in Nodes : replicas'[m].applied >= replicas[m].applied
  BY <1>6, Counts
<1>8. LogIndexed' /\ Images' /\ ReceiptsOK' /\ ReadsFresh'
  BY <1>0, <1>5, <1>6, <1>7, ForwardSteps
<1>9. ServingCaughtUp'
  BY <1>0, <1>1, <1>3, <1>5, <1>6 DEF ServingCaughtUp, Serving
<1>10. RestOK' /\ ReplayOK'
  BY <1>0, <1>1, NodesAssumption DEF RestOK, ReplayOK, Locked, Free, Healths
<1> QED BY <1>7, <1>8, <1>9, <1>10 DEF GroupParts

\* Where a read goes is fresh enough at the moment it is chosen.
LEMMA ReadParts ==
  ASSUME GroupInv, NEW reader \in Readers, NEW lag \in Lags, SelectRead(reader, lag)
  PROVE  GroupParts'
<1>0. /\ log' = log /\ nextSequence' = nextSequence /\ indices' = indices
      /\ replicas' = replicas /\ replay' = replay /\ receipts' = receipts
  BY DEF SelectRead
<1>1. PICK n \in Nodes :
        /\ Eligible(n, lag)
        /\ routes' = [routes EXCEPT ![reader] = [node |-> n, floor |-> Len(log) - lag]]
  BY DEF SelectRead
<1>2. /\ RestOK /\ LogIndexed /\ Images /\ ServingCaughtUp
      /\ ReplayOK /\ ReceiptsOK /\ ReadsFresh
  BY PartsFromInv DEF GroupParts
<1>3. LogIndexed' /\ Images'
  <2>1. LogIndexed'
    BY <1>0, <1>2, LogUnchanged
  <2>2. Images'
    BY <1>0, <1>2, Zenon DEF Images
  <2> QED BY <2>1, <2>2
<1>4. ServingCaughtUp' /\ ReceiptsOK'
  <2>1. ServingCaughtUp'
    BY <1>0, <1>2, Zenon DEF ServingCaughtUp, Serving
  <2>2. ReceiptsOK'
    BY <1>0, <1>2, Zenon DEF ReceiptsOK
  <2> QED BY <2>1, <2>2
<1>5. ReplayOK'
  BY <1>0, <1>2, Zenon DEF ReplayOK, Locked, Serving
<1>6. lag \in Nat /\ Len(log) - lag \in Int
  BY LimitAssumption, Counts
<1>7. routes \in [Readers -> [node : Nodes \cup {NoNode}, floor : Int]]
  BY <1>2 DEF RestOK
<1>8. RestOK'
  <2>1. routes' \in [Readers -> [node : Nodes \cup {NoNode}, floor : Int]]
    BY <1>1, <1>6, <1>7
  <2> QED BY <1>0, <1>2, <2>1, Zenon DEF RestOK
<1>9. replicas[n].applied >= Len(log) - lag
  <2>1. replicas[Primary].applied = Len(log)
    BY Counts, NodesAssumption DEF Reached
  <2>2. Lag(n) <= lag
    BY <1>1 DEF Eligible
  <2> QED BY <1>6, <2>1, <2>2, Counts DEF Lag
<1>10. ReadsFresh'
  <2> SUFFICES ASSUME NEW r \in Readers, routes'[r].node # NoNode
               PROVE  replicas[routes'[r].node].applied >= routes'[r].floor
    BY <1>0 DEF ReadsFresh
  <2>1. CASE r = reader
    <3>1. routes'[r] = [node |-> n, floor |-> Len(log) - lag]
      BY <1>1, <1>7, <2>1
    <3> QED BY <1>9, <3>1
  <2>2. CASE r # reader
    <3>1. routes'[r] = routes[r]
      BY <1>1, <1>7, <2>2
    <3> QED BY <1>2, <3>1 DEF ReadsFresh
  <2> QED BY <2>1, <2>2
<1> QED BY <1>3, <1>4, <1>5, <1>8, <1>10 DEF GroupParts

-----------------------------------------------------------------------------
(* Submission                                                              *)

\* A retry finds its record in the log, at the position of its sequence.
LEMMA RecordOfCommitted ==
  ASSUME GroupInv, NEW op, Committed(op)
  PROVE  \E i \in 1..Len(log) : RecordOf(op) = log[i] /\ log[i].op = op
                                /\ log[i].sequence = i
<1>1. LogIndexed
  BY DEF GroupInv
<1>2. indices = {[op |-> log[i].op, at |-> i] : i \in 1..Len(log)}
  BY <1>1 DEF LogIndexed
<1> DEFINE e == CHOOSE entry \in indices : entry.op = op
<1>3. e \in indices /\ e.op = op
  BY DEF Committed
<1>4. RecordOf(op) = log[e.at]
  BY DEF RecordOf
<1> HIDE DEF e
<1>5. PICK i \in 1..Len(log) : e = [op |-> log[i].op, at |-> i]
  BY <1>2, <1>3
<1>6. log[i].op = op /\ e.at = i
  BY <1>3, <1>5
<1>7. log[i].sequence = i
  BY <1>1 DEF LogIndexed
<1> QED BY <1>4, <1>6, <1>7

\* A retry changes no replica: the ones it reaches have the record.
LEMMA RetryParts ==
  ASSUME GroupInv, NEW op \in Operations, NEW doc \in Documents, NEW mode \in Modes,
         SubmitRetry(op, doc, mode)
  PROVE  GroupParts' /\ replicas' = replicas
<1>0. /\ ~Locked /\ Committed(op) /\ replicas' = Distribute(replicas, RecordOf(op))
      /\ Receive(op, replicas, RecordOf(op), mode)
      /\ log' = log /\ nextSequence' = nextSequence /\ indices' = indices
      /\ replay' = replay /\ routes' = routes
  BY DEF SubmitRetry
<1>1. PICK i \in 1..Len(log) : RecordOf(op) = log[i] /\ log[i].op = op /\ log[i].sequence = i
  BY <1>0, RecordOfCommitted
<1>2. /\ RestOK /\ LogIndexed /\ Images /\ ServingCaughtUp
      /\ ReplayOK /\ ReceiptsOK /\ ReadsFresh
  BY PartsFromInv DEF GroupParts
<1>3. ASSUME NEW n \in Nodes, Reached(n) PROVE Apply(replicas[n], log[i]) = replicas[n]
  <2>1. i <= replicas[n].applied /\ i <= replicas[n].applied + 1
    BY <1>3, Counts
  <2> QED BY <2>1, InvImages, ApplyImage
<1>4. replicas' = replicas
  <2>1. replicas' = [n \in Nodes |-> IF Reached(n) THEN Apply(replicas[n], log[i])
                                                  ELSE replicas[n]]
    BY <1>0, <1>1 DEF Distribute
  <2>2. replicas = [n \in Nodes |-> replicas[n]]
    BY <1>2 DEF Images
  <2>3. \A n \in Nodes : (IF Reached(n) THEN Apply(replicas[n], log[i]) ELSE replicas[n])
                         = replicas[n]
    BY <1>3
  <2> QED BY <2>1, <2>2, <2>3
<1>5. LogIndexed' /\ Images'
  <2>1. LogIndexed'
    BY <1>0, <1>2, LogUnchanged
  <2>2. Images'
    BY <1>0, <1>2, <1>4, Zenon DEF Images
  <2> QED BY <2>1, <2>2
<1>6. ServingCaughtUp' /\ ReadsFresh'
  <2>1. ServingCaughtUp'
    BY <1>0, <1>2, <1>4, Zenon DEF ServingCaughtUp, Serving
  <2>2. ReadsFresh'
    BY <1>0, <1>2, <1>4, Zenon DEF ReadsFresh
  <2> QED BY <2>1, <2>2
<1>7. ReplayOK'
  BY <1>0 DEF ReplayOK, Locked
<1> DEFINE receipt == [op |-> op, sequence |-> i, mode |-> mode]
<1>8. /\ receipts' = receipts \cup {r \in {receipt} : Sufficient(replicas, log[i], mode)}
  BY <1>0, <1>1 DEF Receive
<1>9. ASSUME mode = "all_replicas", Sufficient(replicas, log[i], mode)
      PROVE  \A n \in Nodes : replicas[n].applied >= i
  <2>1. \A n \in Nodes : Reached(n)
    BY <1>9 DEF Sufficient, Acknowledging
  <2> QED BY <2>1, Counts
<1>10. ReceiptsOK'
  <2> SUFFICES ASSUME NEW r \in receipts'
               PROVE  /\ r.sequence \in 1..Len(log)
                      /\ log[r.sequence].op = r.op
                      /\ r.mode = "all_replicas" =>
                           \A n \in Nodes : replicas[n].applied >= r.sequence
    BY <1>0, <1>4, Zenon DEF ReceiptsOK
  <2>1. CASE r \in receipts
    BY <1>2, <2>1 DEF ReceiptsOK
  <2>2. CASE r = receipt /\ Sufficient(replicas, log[i], mode)
    BY <1>1, <1>9, <2>2
  <2> QED BY <1>8, <2>1, <2>2
<1>11. RestOK'
  <2>1. receipt \in [op : Operations, sequence : Nat, mode : Modes]
    BY Counts
  <2>2. receipts' \subseteq [op : Operations, sequence : Nat, mode : Modes]
    <3> HIDE DEF receipt
    <3> QED BY <1>2, <1>8, <2>1 DEF RestOK
  <2> QED BY <1>0, <1>2, <2>2, Zenon DEF RestOK
<1> QED BY <1>4, <1>5, <1>6, <1>7, <1>10, <1>11 DEF GroupParts

\* A new operation: the log grows by a record that every replica in service
\* applies, the primary once although it is handed the record twice.
LEMMA NewParts ==
  ASSUME GroupInv, NEW op \in Operations, NEW doc \in Documents, NEW mode \in Modes,
         SubmitNew(op, doc, mode)
  PROVE  /\ GroupParts'
         /\ \A n \in Nodes : replicas'[n].applied >= replicas[n].applied
<1> DEFINE record == NewRecord(op, doc)
           group == [replicas EXCEPT ![Primary] = Apply(replicas[Primary], record)]
           N == Len(log)
           receipt == [op |-> op, sequence |-> N + 1, mode |-> mode]
<1>0. /\ ~Locked /\ Admits(op, doc) /\ log' = Append(log, record)
      /\ indices' = indices \cup {[op |-> op, at |-> N + 1]}
      /\ nextSequence' = nextSequence + 1
      /\ replicas' = Distribute(group, record) /\ Receive(op, group, record, mode)
      /\ replay' = replay /\ routes' = routes
  BY DEF SubmitNew
<1>1. /\ RestOK /\ LogIndexed /\ Images /\ ServingCaughtUp
      /\ ReplayOK /\ ReceiptsOK /\ ReadsFresh
  BY PartsFromInv DEF GroupParts
<1>2. /\ record \in Records /\ Replayable(log') /\ \A i \in 1..N : log[i].op # op
  BY <1>0, AdmitsReplayable
<1>3. N \in Nat /\ nextSequence = N + 1 /\ N < LogLimit /\ log \in Seq(Records)
  BY <1>0, <1>1, Counts DEF LogIndexed, Admits, Images, Replayable
<1>4. record.op = op /\ record.sequence = N + 1
  BY <1>3 DEF NewRecord
<1>5. /\ Len(log') = N + 1 /\ log'[N + 1] = record
      /\ \A i \in 1..N : log'[i] = log[i]
  <2> HIDE DEF record
  <2> QED BY <1>0, <1>2, <1>3
<1>6. \A i \in 1..(N + 1) : i \in 1..N \/ i = N + 1
  BY <1>3
<1>7. N + 1 \in 1..(N + 1) /\ \A i \in 1..N : i \in 1..(N + 1)
  BY <1>3
<1> HIDE DEF record
<1>8. \A n \in Nodes : ImageOf(log', replicas[n])
  BY <1>0, <1>2, <1>3, InvImages, AppendImage
<1>9. ASSUME NEW n \in Nodes, Reached(n)
      PROVE  LET A == Apply(replicas[n], record)
             IN /\ ImageOf(log', A) /\ A.applied = N + 1 /\ A.health = replicas[n].health
                /\ Apply(A, record) = A
  <2> DEFINE A == Apply(replicas[n], record)
  <2>1. replicas[n].applied = N
    BY <1>9, Counts
  <2>2. N + 1 \in 1..Len(log') /\ N + 1 <= replicas[n].applied + 1
    BY <1>3, <1>5, <2>1
  <2>3. ImageOf(log', A) /\ A.applied = N + 1 /\ A.health = replicas[n].health
    BY <1>2, <1>5, <1>8, <2>1, <2>2, ApplyImage
  <2> HIDE DEF A
  <2>4. N + 1 <= A.applied /\ N + 1 <= A.applied + 1
    BY <1>3, <2>3
  <2>5. Apply(A, record) = A
    BY <1>2, <1>5, <2>2, <2>3, <2>4, ApplyImage
  <2> QED BY <2>3, <2>5 DEF A
<1>10. replicas = [n \in Nodes |-> replicas[n]] /\ Reached(Primary) /\ Primary \in Nodes
  BY <1>1, NodesAssumption DEF Images, Reached
<1>11. \A n \in Nodes : group[n] = IF n = Primary THEN Apply(replicas[n], record)
                                                 ELSE replicas[n]
  BY <1>10
<1> HIDE DEF group
<1>12. \A n \in Nodes : replicas'[n] = IF Reached(n) THEN Apply(group[n], record) ELSE group[n]
  BY <1>0 DEF Distribute
<1>13. ASSUME NEW n \in Nodes
       PROVE  replicas'[n] = IF Reached(n) THEN Apply(replicas[n], record) ELSE replicas[n]
  <2>1. CASE n = Primary
    BY <1>9, <1>10, <1>11, <1>12, <2>1
  <2>2. CASE n # Primary
    BY <1>11, <1>12, <2>2
  <2> QED BY <2>1, <2>2
<1>14. \A n \in Nodes : /\ ImageOf(log', replicas'[n])
                        /\ replicas'[n].health = replicas[n].health
                        /\ replicas'[n].applied = IF Reached(n) THEN N + 1
                                                   ELSE replicas[n].applied
  BY <1>8, <1>9, <1>13
<1>15. \A n \in Nodes : /\ replicas'[n].applied \in Nat
                        /\ replicas'[n].applied >= replicas[n].applied
  BY <1>3, <1>14, Counts
<1>16. Images'
  <2>1. replicas' = [n \in Nodes |-> replicas'[n]]
    BY <1>0 DEF Distribute
  <2> QED BY <1>2, <1>14, <2>1, Zenon DEF Images
<1>17. LogIndexed'
  <2>1. nextSequence' = Len(log') + 1 /\ Len(log') <= LogLimit
    BY <1>0, <1>3, <1>5, LimitAssumption
  <2>2. /\ \A i \in 1..Len(log') : log'[i].sequence = i /\ log'[i].op # ""
        /\ \A i, j \in 1..Len(log') : log'[i].op = log'[j].op => i = j
    BY <1>2, Zenon DEF Replayable
  <2>3. indices = {[op |-> log[i].op, at |-> i] : i \in 1..N}
    BY <1>1 DEF LogIndexed
  <2>4. indices' = {[op |-> log'[i].op, at |-> i] : i \in 1..(N + 1)}
    <3> DEFINE E(i) == [op |-> log'[i].op, at |-> i]
    <3>1. E(N + 1) = [op |-> op, at |-> N + 1] /\ \A i \in 1..N : E(i) = [op |-> log[i].op, at |-> i]
      BY <1>4, <1>5
    <3>2. indices = {E(i) : i \in 1..N} /\ indices' = indices \cup {E(N + 1)}
      BY <1>0, <2>3, <3>1
    <3> HIDE DEF E
    <3>3. indices' = {E(i) : i \in 1..(N + 1)}
      BY <1>6, <1>7, <3>2
    <3> QED BY <3>3 DEF E
  <2> QED BY <1>5, <2>1, <2>2, <2>4, Zenon DEF LogIndexed
<1>18. ServingCaughtUp'
  <2> SUFFICES ASSUME NEW n \in Nodes, n = Primary \/ Serving(replicas'[n])
               PROVE  replicas'[n].applied = N + 1
    BY <1>5 DEF ServingCaughtUp, Serving
  <2>1. Reached(n)
    BY <1>14 DEF Reached, Serving
  <2> QED BY <1>14, <2>1
<1>19. ReplayOK'
  BY <1>0 DEF ReplayOK, Locked
<1>20. ReadsFresh'
  <2> SUFFICES ASSUME NEW r \in Readers, routes[r].node # NoNode
               PROVE  replicas'[routes[r].node].applied >= routes[r].floor
    BY <1>0 DEF ReadsFresh
  <2>1. routes[r].node \in Nodes /\ routes[r].floor \in Int
    BY <1>1 DEF RestOK
  <2>2. replicas[routes[r].node].applied >= routes[r].floor
    BY <1>1 DEF ReadsFresh
  <2> QED BY <1>15, <2>1, <2>2, Counts
<1>21. receipts' = receipts \cup {r \in {receipt} : Sufficient(group, record, mode)}
  BY <1>0, <1>4 DEF Receive
<1>22. ASSUME mode = "all_replicas", Sufficient(group, record, mode)
       PROVE  \A n \in Nodes : replicas'[n].applied >= N + 1
  <2>1. \A n \in Nodes : Reached(n)
    BY <1>22 DEF Sufficient, Acknowledging
  <2> QED BY <1>3, <1>14, <2>1
<1>23. ReceiptsOK'
  <2> SUFFICES ASSUME NEW r \in receipts'
               PROVE  /\ r.sequence \in 1..(N + 1)
                      /\ log'[r.sequence].op = r.op
                      /\ r.mode = "all_replicas" =>
                           \A n \in Nodes : replicas'[n].applied >= r.sequence
    BY <1>5, Zenon DEF ReceiptsOK
  <2>1. CASE r \in receipts
    <3>1. /\ r.sequence \in 1..N /\ log[r.sequence].op = r.op
          /\ r.mode = "all_replicas" => \A n \in Nodes : replicas[n].applied >= r.sequence
      BY <1>1, <2>1 DEF ReceiptsOK
    <3>2. r.sequence \in Int
      BY <1>3, <3>1
    <3>3. r.mode = "all_replicas" => \A n \in Nodes : replicas'[n].applied >= r.sequence
      BY <1>15, <3>1, <3>2, Counts
    <3> QED BY <1>5, <1>7, <3>1, <3>3
  <2>2. CASE r = receipt /\ Sufficient(group, record, mode)
    BY <1>4, <1>5, <1>7, <1>22, <2>2
  <2> QED BY <1>21, <2>1, <2>2
<1>24. RestOK'
  <2>1. receipt \in [op : Operations, sequence : Nat, mode : Modes]
    BY <1>3
  <2>2. receipts' \subseteq [op : Operations, sequence : Nat, mode : Modes]
    <3> HIDE DEF receipt
    <3> QED BY <1>1, <1>21, <2>1 DEF RestOK
  <2>3. indices' \subseteq [op : Operations, at : Nat]
    <3>1. [op |-> op, at |-> N + 1] \in [op : Operations, at : Nat]
      BY <1>3
    <3> QED BY <1>0, <1>1, <3>1 DEF RestOK
  <2>4. nextSequence' \in Nat
    BY <1>0, <1>3
  <2> QED BY <1>0, <1>1, <2>2, <2>3, <2>4, Zenon DEF RestOK
<1> QED BY <1>15, <1>16, <1>17, <1>18, <1>19, <1>20, <1>23, <1>24 DEF GroupParts

-----------------------------------------------------------------------------
(* The theorems                                                            *)

\* GroupInv is inductive, and no step takes a replica back.
LEMMA GroupStep ==
  ASSUME GroupInv, [Next]_vars
  PROVE  GroupInv' /\ \A n \in Nodes : replicas'[n].applied >= replicas[n].applied
<1> DEFINE Forward == \A n \in Nodes : replicas'[n].applied >= replicas[n].applied
<1>0. replicas' = replicas => Forward
  BY Counts
<1>1. ASSUME NEW op \in Operations, NEW doc \in Documents, NEW mode \in Modes,
             Submit(op, doc, mode)
      PROVE  GroupParts' /\ Forward
  BY <1>0, <1>1, NewParts, RetryParts, Zenon DEF Submit
<1>2. ASSUME NEW n \in Nodes, SetHealth(n)
      PROVE  GroupParts' /\ Forward
  <2>1. CASE \E health \in {"unhealthy", "draining"} : SetHealthDown(n, health)
    BY <2>1, DownParts, Zenon
  <2>2. CASE \E health \in {"healthy", "suspect"} : SetHealthUp(n, health)
    BY <1>0, <2>2, UpParts DEF SetHealthUp
  <2> QED BY <1>2, <2>1, <2>2 DEF SetHealth
<1>3. ASSUME ReplayRecord
      PROVE  GroupParts' /\ Forward
  BY <1>3, ReplayParts
<1>4. ASSUME ReplayDone
      PROVE  GroupParts' /\ Forward
  BY <1>4, DoneParts
<1>5. ASSUME NEW reader \in Readers, NEW lag \in Lags, SelectRead(reader, lag)
      PROVE  GroupParts' /\ Forward
  BY <1>0, <1>5, ReadParts DEF SelectRead
<1>6. ASSUME UNCHANGED vars
      PROVE  GroupParts' /\ Forward
  <2>1. /\ log' = log /\ nextSequence' = nextSequence /\ indices' = indices
        /\ replicas' = replicas /\ replay' = replay /\ receipts' = receipts
        /\ routes' = routes
    BY <1>6 DEF vars
  <2>2. /\ RestOK /\ LogIndexed /\ Images /\ ServingCaughtUp
        /\ ReplayOK /\ ReceiptsOK /\ ReadsFresh
    BY PartsFromInv DEF GroupParts
  <2>3. LogIndexed'
    BY <2>1, <2>2, LogUnchanged
  <2>4. Images' /\ ServingCaughtUp'
    BY <2>1, <2>2, Zenon DEF Images, ServingCaughtUp, Serving
  <2>5. ReplayOK' /\ RestOK'
    BY <2>1, <2>2, Zenon DEF ReplayOK, Locked, Serving, RestOK
  <2>6. ReceiptsOK' /\ ReadsFresh'
    BY <2>1, <2>2, Zenon DEF ReceiptsOK, ReadsFresh
  <2> QED BY <1>0, <2>1, <2>2, <2>3, <2>4, <2>5, <2>6 DEF GroupParts
<1>7. GroupParts' /\ Forward
  <2> HIDE DEF Forward
  <2> QED BY <1>1, <1>2, <1>3, <1>4, <1>5, <1>6, Zenon DEF Next
<1>8. GroupInv'
  <2> HIDE DEF Forward
  <2> QED BY <1>7, InvFromParts, PTL
<1> QED BY <1>7, <1>8

\* The invariant of the group holds in every reachable state, for every set
\* of nodes, operations and documents and every limit on the log.
THEOREM GroupInvariance == Spec => []GroupInv
<1>1. Init => GroupInv
  BY InitParts, InvFromParts
<1>2. GroupInv /\ [Next]_vars => GroupInv'
  BY GroupStep
<1> QED BY <1>1, <1>2, PTL DEF Spec

\* Replicas that have applied as many records hold the same index, whatever
\* was retried, skipped or replayed on the way.
THEOREM ReplicasConverge == Spec => []Converged
<1>1. GroupInv => Converged
  BY DEF GroupInv
<1> QED BY <1>1, GroupInvariance, PTL

\* Every replica in service has applied the whole log.
THEOREM ServingReplicasCaughtUp == Spec => []ServingCaughtUp
<1>1. GroupInv => ServingCaughtUp
  BY DEF GroupInv
<1> QED BY <1>1, GroupInvariance, PTL

\* The replica that a reader was sent to has applied all but the permitted
\* lag of what was committed when it was chosen.
THEOREM ReadsStayFresh == Spec => []ReadsFresh
<1>1. GroupInv => ReadsFresh
  BY DEF GroupInv
<1> QED BY <1>1, GroupInvariance, PTL

\* No record of a catch-up is refused, so that set_health to healthy or
\* suspect always ends in service.
THEOREM CatchUpNeverFails == Spec => []CatchUpSucceeds
<1>1. ASSUME GroupInv, replay.next \in 1..Len(log)
      PROVE  Acknowledges(replicas[replay.node], log[replay.next])
  <2>1. ReplayOK /\ RestOK
    BY <1>1, PartsFromInv DEF GroupParts
  <2>2. replay.node \in Nodes /\ replay.next \in Nat
    BY <2>1 DEF RestOK
  <2>3. replicas[replay.node].applied >= replay.next - 1
    BY <1>1, <2>1, <2>2, Counts DEF ReplayOK, Locked
  <2>4. replay.next <= replicas[replay.node].applied + 1
    BY <1>1, <2>2, <2>3, Counts
  <2> QED BY <1>1, <2>2, <2>4, InvImages, ApplyImage
<1>2. GroupInv => CatchUpSucceeds
  BY <1>1 DEF CatchUpSucceeds
<1> QED BY <1>2, GroupInvariance, PTL

\* With every replica in service, a retry of a logged operation is
\* acknowledged by all of them.
THEOREM RetriesSucceed == Spec => []RetrySucceeds
<1>1. ASSUME GroupInv, \A n \in Nodes : Serving(replicas[n]), NEW i \in 1..Len(log)
      PROVE  Sufficient(replicas, log[i], "all_replicas")
  <2>1. ASSUME NEW n \in Nodes PROVE Reached(n) /\ Acknowledges(replicas[n], log[i])
    <3>1. Reached(n)
      BY <1>1 DEF Reached
    <3>2. i <= replicas[n].applied + 1
      BY <1>1, <3>1, Counts
    <3> QED BY <1>1, <3>1, <3>2, InvImages, ApplyImage
  <2> QED BY <2>1 DEF Sufficient, Acknowledging
<1>2. GroupInv => RetrySucceeds
  BY <1>1 DEF RetrySucceeds
<1> QED BY <1>2, GroupInvariance, PTL

\* A mutation acknowledged by all replicas stays applied on each of them.
THEOREM ReceiptsHold == Spec => []AllReplicasHold
<1>1. ASSUME GroupInv, NEW receipt \in receipts, receipt.mode = "all_replicas", NEW n \in Nodes
      PROVE  \E record \in replicas[n].operations :
               record.op = receipt.op /\ record.sequence = receipt.sequence
  <2> DEFINE s == receipt.sequence
  <2>1. s \in 1..Len(log) /\ log[s].op = receipt.op /\ replicas[n].applied >= s
    BY <1>1 DEF GroupInv, ReceiptsOK
  <2>2. s \in 1..replicas[n].applied
    BY <1>1, <2>1, Counts
  <2>3. log[s] \in replicas[n].operations
    <3>1. replicas[n].operations = {log[i] : i \in 1..replicas[n].applied}
      BY <1>1 DEF GroupInv, AppliesPrefix
    <3> QED BY <2>2, <3>1
  <2>4. log[s].sequence = s
    BY <1>1, <2>1, InvImages, ReplayableFacts
  <2> QED BY <2>1, <2>3, <2>4
<1>2. GroupInv => AllReplicasHold
  BY <1>1 DEF AllReplicasHold
<1> QED BY <1>2, GroupInvariance, PTL

\* Retries never give an operation a second sequence, and no two operations
\* share one.
THEOREM OneSequence == Spec => []OneSequencePerOperation
<1>1. ASSUME GroupInv, NEW r \in receipts, NEW s \in receipts
      PROVE  r.op = s.op <=> r.sequence = s.sequence
  <2>1. /\ r.sequence \in 1..Len(log) /\ log[r.sequence].op = r.op
        /\ s.sequence \in 1..Len(log) /\ log[s.sequence].op = s.op
    BY <1>1 DEF GroupInv, ReceiptsOK
  <2>2. \A i, j \in 1..Len(log) : log[i].op = log[j].op => i = j
    BY <1>1 DEF GroupInv, LogIndexed
  <2> QED BY <2>1, <2>2, Zenon
<1>2. GroupInv => OneSequencePerOperation
  BY <1>1 DEF OneSequencePerOperation
<1> QED BY <1>2, GroupInvariance, PTL

-----------------------------------------------------------------------------
(* The group implements the replicated log                                 *)

\* The operations of a log, in order.
OpsOf(l) == [i \in 1..Len(l) |-> l[i].op]

\* They are a sequence as long as the log, and grow as it grows.
LEMMA OpsSequence ==
  ASSUME NEW l \in Seq(Records)
  PROVE  /\ OpsOf(l) \in Seq(Operations) /\ Len(OpsOf(l)) = Len(l)
         /\ \A i \in 1..Len(l) : OpsOf(l)[i] = l[i].op
         /\ \A r \in Records : OpsOf(Append(l, r)) = Append(OpsOf(l), r.op)
<1>1. Len(l) \in Nat /\ \A i \in 1..Len(l) : l[i].op \in Operations
  BY RecordFields
<1>2. /\ OpsOf(l) \in Seq(Operations) /\ Len(OpsOf(l)) = Len(l)
      /\ \A i \in 1..Len(l) : OpsOf(l)[i] = l[i].op
  BY <1>1 DEF OpsOf
<1>3. ASSUME NEW r \in Records PROVE OpsOf(Append(l, r)) = Append(OpsOf(l), r.op)
  <2> DEFINE L == Append(l, r)  A == Append(OpsOf(l), r.op)  N == Len(l)
  <2>1. Len(L) = N + 1 /\ L[N + 1] = r /\ \A i \in 1..N : L[i] = l[i]
    OBVIOUS
  <2>2. r.op \in Operations
    BY RecordFields
  <2>3. /\ A \in Seq(Operations) /\ Len(A) = N + 1
        /\ A[N + 1] = r.op /\ \A i \in 1..N : A[i] = l[i].op
    <3> HIDE DEF N
    <3> QED BY <1>1, <1>2, <2>2 DEF N
  <2>4. \A i \in 1..(N + 1) : i \in 1..N \/ i = N + 1
    BY <1>1
  <2> HIDE DEF A, L
  <2>5. A = [i \in 1..(N + 1) |-> A[i]]
    BY <2>3
  <2>6. OpsOf(L) = [i \in 1..(N + 1) |-> L[i].op]
    BY <2>1 DEF OpsOf
  <2>7. \A i \in 1..(N + 1) : A[i] = L[i].op
    BY <2>1, <2>3, <2>4
  <2> QED BY <2>5, <2>6, <2>7 DEF A, L
<1> QED BY <1>2, <1>3

\* What a step may do to the log and to the receipts.
LEMMA LogStep ==
  ASSUME GroupInv, [Next]_vars
  PROVE  /\ \/ log' = log
            \/ \E record \in Records : /\ log' = Append(log, record)
                                       /\ \A i \in 1..Len(log) : log[i].op # record.op
         /\ receipts \subseteq receipts'
<1> DEFINE Grows == \E record \in Records :
             /\ log' = Append(log, record)
             /\ \A i \in 1..Len(log) : log[i].op # record.op
<1>1. ASSUME NEW op \in Operations, NEW doc \in Documents, NEW mode \in Modes,
             SubmitNew(op, doc, mode)
      PROVE  Grows /\ receipts \subseteq receipts'
  <2>1. Admits(op, doc) /\ log' = Append(log, NewRecord(op, doc)) /\ receipts \subseteq receipts'
    BY <1>1 DEF SubmitNew, Receive
  <2>2. NewRecord(op, doc).op = op
    BY DEF NewRecord
  <2> QED BY <2>1, <2>2, AdmitsReplayable, Zenon
<1>2. ASSUME NEW op \in Operations, NEW doc \in Documents, NEW mode \in Modes,
             SubmitRetry(op, doc, mode)
      PROVE  log' = log /\ receipts \subseteq receipts'
  BY <1>2 DEF SubmitRetry, Receive
<1>3. ASSUME NEW n \in Nodes, SetHealth(n)
      PROVE  log' = log /\ receipts' = receipts
  BY <1>3 DEF SetHealth, SetHealthDown, SetHealthUp
<1>4. ReplayRecord \/ ReplayDone => log' = log /\ receipts' = receipts
  BY DEF ReplayRecord, ReplayDone
<1>5. ASSUME NEW reader \in Readers, NEW lag \in Lags, SelectRead(reader, lag)
      PROVE  log' = log /\ receipts' = receipts
  BY <1>5 DEF SelectRead
<1>6. UNCHANGED vars => log' = log /\ receipts' = receipts
  BY DEF vars
<1> HIDE DEF Grows
<1>7. (log' = log \/ Grows) /\ receipts \subseteq receipts'
  BY <1>1, <1>2, <1>3, <1>4, <1>5, <1>6 DEF Next, Submit
<1> QED BY <1>7 DEF Grows

\* Every step of the group is a step of the replicated log, or leaves it.
LEMMA AbstractStep ==
  ASSUME GroupInv, GroupInv', [Next]_vars
  PROVE  Abstract!Next
<1> DEFINE ops == [i \in 1..Len(log) |-> log[i].op]
           applied == [n \in Nodes |-> replicas[n].applied]
<1>0. ops = OpsOf(log) /\ ops' = OpsOf(log')
  BY DEF OpsOf
<1>1. log \in Seq(Records) /\ log' \in Seq(Records)
  BY DEF GroupInv, TypeOK
<1>2. /\ Len(ops) = Len(log) /\ \A i \in 1..Len(log) : ops[i] = log[i].op
      /\ Len(ops') = Len(log') /\ \A i \in 1..Len(log') : ops'[i] = log'[i].op
  BY <1>0, <1>1, OpsSequence
<1>3. Abstract!Extend
  <2>1. CASE log' = log
    BY <2>1 DEF Abstract!Extend
  <2>2. ASSUME NEW record \in Records, log' = Append(log, record),
               \A i \in 1..Len(log) : log[i].op # record.op
        PROVE  Abstract!Extend
    <3>1. ops' = Append(ops, record.op) /\ record.op \in Operations
      BY <1>0, <1>1, <2>2, OpsSequence, RecordFields
    <3>2. ~Abstract!InLog(record.op)
      BY <1>2, <2>2 DEF Abstract!InLog
    <3> QED BY <3>1, <3>2 DEF Abstract!Extend
  <2> QED BY <2>1, <2>2, LogStep
<1>4. Abstract!Advance
  <2>1. \A n \in Nodes : /\ replicas'[n].applied \in Nat
                         /\ replicas'[n].applied <= Len(log')
    BY DEF GroupInv, TypeOK, AppliesPrefix
  <2>2. Len(log') \in Nat
    BY <1>1
  <2>3. \A n \in Nodes : replicas'[n].applied \in 0..Len(log')
    BY <2>1, <2>2
  <2>4. replicas'[Primary].applied = Len(log')
    BY NodesAssumption DEF GroupInv, ServingCaughtUp
  <2>5. \A n \in Nodes : replicas'[n].applied >= replicas[n].applied
    BY GroupStep
  <2> HIDE DEF ops
  <2>6. /\ applied' \in [Nodes -> 0..Len(ops')]
        /\ \A n \in Nodes : applied'[n] >= applied[n]
        /\ applied'[Primary] = Len(ops')
    BY <1>2, <2>3, <2>4, <2>5, NodesAssumption
  <2> QED BY <2>6 DEF Abstract!Advance, ops
<1>5. Abstract!Grant
  <2>1. ASSUME NEW receipt \in receipts'
        PROVE  /\ receipt.sequence \in 1..Len(ops') /\ ops'[receipt.sequence] = receipt.op
               /\ receipt.mode = "all_replicas" =>
                    \A n \in Nodes : applied'[n] >= receipt.sequence
    <3> HIDE DEF ops
    <3> QED BY <1>2 DEF GroupInv, ReceiptsOK
  <2> QED BY <2>1, LogStep DEF Abstract!Grant, Abstract!Deserved
<1> QED BY <1>3, <1>4, <1>5 DEF Abstract!Next

\* The group implements the replicated log: one log that only grows and holds
\* an operation once, nodes that apply it in order, receipts that hold.
THEOREM GroupImplementsLog == Spec => ImplementsLog
<1>1. Init => Abstract!Init
  <2> SUFFICES ASSUME Init PROVE Abstract!Init
    OBVIOUS
  <2>1. /\ log = <<>> /\ receipts = {}
        /\ replicas = [n \in Nodes |-> EmptyReplica(Shard, Epoch)]
    BY DEF Init
  <2>2. [i \in 1..Len(log) |-> log[i].op] = <<>>
    BY <2>1
  <2>3. [n \in Nodes |-> replicas[n].applied] = [n \in Nodes |-> 0]
    BY <2>1 DEF EmptyReplica
  <2> QED BY <2>1, <2>2, <2>3 DEF Abstract!Init
<1>2. GroupInv /\ GroupInv' /\ [Next]_vars => [Abstract!Next]_(Abstract!vars)
  BY AbstractStep
<1> QED BY <1>1, <1>2, GroupInvariance, PTL DEF Spec, ImplementsLog, Abstract!Spec
=============================================================================
