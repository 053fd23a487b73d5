------------------------- MODULE IndexWriterProofs -------------------------
(***************************************************************************)
(* Theorems about IndexWriter, for every number of threads, documents,     *)
(* versions and limits.  Their proofs are in three parts:                  *)
(*                                                                         *)
(*  - lemmas about coverage, the order in which versions of a document     *)
(*    replace each other, and the proof that every step keeps the types,   *)
(*    given TypeOK /\ WriterInv;                                           *)
(*  - TypeOK /\ WriterInv is inductive; from it follow the durability of   *)
(*    acknowledged mutations, the visibility of refreshed ones, the        *)
(*    readability of the published generation and the monotonicity of      *)
(*    what is published;                                                   *)
(*  - what readers see, and what a restart finds: no view fails and each   *)
(*    shows what was refreshed, the manifest in memory is the published    *)
(*    one, the directory opens again, and a writer with a single producer  *)
(*    keeps every acknowledged mutation.  ViewInv is inductive together    *)
(*    with Inv.  A view fails when a file of its generation is gone        *)
(*    (ViewOK) or when two segments disagree about one version of a        *)
(*    document: that they never do (UniqueOK) needs to be known of         *)
(*    everything that may still be published.                              *)
(***************************************************************************)
EXTENDS IndexWriter, ListFacts, TLAPS, FiniteSetTheorems

\* The segment ID an opened writer gives out next is new.
LEMMA NextIdFresh ==
  ASSUME NEW ids \in SUBSET Nat, IsFiniteSet(ids)
  PROVE  NextId(ids) \in Nat /\ \A s \in ids : s < NextId(ids)
<1>1. CASE ids = {}
  BY <1>1 DEF NextId
<1>2. CASE ids # {}
  <2> DEFINE x == CHOOSE x \in ids : \A y \in ids : y <= x
  <2>1. x \in ids /\ \A y \in ids : y <= x
    BY <1>2, FiniteMax
  <2>2. NextId(ids) = 1 + x
    BY <1>2 DEF NextId
  <2> HIDE DEF x
  <2> QED BY <2>1, <2>2
<1> QED BY <1>1, <1>2

-----------------------------------------------------------------------------
(* Coverage                                                                *)

\* A mutation has an ID and a natural number as its version.
LEMMA MutationFields ==
  ASSUME NEW m \in Mutation
  PROVE  m.id \in Ids /\ m.version \in Nat /\ m.version \in Versions
BY RequestsAssumption DEF Mutation

\* A set of mutations covers its members.
LEMMA CoverReflexive ==
  ASSUME NEW M \in SUBSET Mutation, NEW S, M \subseteq S
  PROVE  AllCovered(M, S)
BY MutationFields DEF AllCovered, CoveredBy

\* Coverage is monotone in both arguments.
LEMMA CoverMonotone ==
  ASSUME NEW M, NEW N, NEW S, NEW T, AllCovered(M, S), N \subseteq M, S \subseteq T
  PROVE  AllCovered(N, T)
BY DEF AllCovered, CoveredBy

\* What covers each of two sets covers their union.
LEMMA CoverUnion ==
  ASSUME NEW M, NEW N, NEW S, AllCovered(M, S), AllCovered(N, S)
  PROVE  AllCovered(M \cup N, S)
BY DEF AllCovered

\* Coverage is transitive.
LEMMA CoverTransitive ==
  ASSUME NEW M \in SUBSET Mutation, NEW S \in SUBSET Mutation,
         NEW T \in SUBSET Mutation, AllCovered(M, S), AllCovered(S, T)
  PROVE  AllCovered(M, T)
<1> SUFFICES ASSUME NEW m \in M PROVE CoveredBy(m, T)
  BY DEF AllCovered
<1>1. PICK n \in S : n.id = m.id /\ n.version >= m.version
  BY DEF AllCovered, CoveredBy
<1>2. PICK k \in T : k.id = n.id /\ k.version >= n.version
  BY DEF AllCovered, CoveredBy
<1>3. m.version \in Nat /\ n.version \in Nat /\ k.version \in Nat
  BY MutationFields
<1>4. k.id = m.id /\ k.version >= m.version
  BY <1>1, <1>2, <1>3
<1> QED BY <1>4 DEF CoveredBy

\* The winners of a merge or a view cover all that went in.
LEMMA LatestCovers ==
  ASSUME NEW S \in SUBSET Mutation
  PROVE  /\ Latest(S) \subseteq S
         /\ AllCovered(S, Latest(S))
<1>1. Latest(S) \subseteq S
  BY DEF Latest
<1>2. ASSUME NEW m \in S PROVE CoveredBy(m, Latest(S))
  <2> DEFINE Same == {n \in S : n.id = m.id}
             V == {n.version : n \in Same}
  <2>1. m \in Same /\ m.version \in V
    OBVIOUS
  <2>2. V \in SUBSET Nat /\ V \subseteq Versions
    BY MutationFields
  <2>3. IsFiniteSet(V)
    BY <2>2, RequestsAssumption, FS_Subset
  <2>4. PICK v \in V : \A w \in V : w <= v
    <3> HIDE DEF V
    <3> QED BY <2>1, <2>2, <2>3, FiniteMax
  <2>5. PICK n \in Same : n.version = v
    OBVIOUS
  <2>6. \A k \in S : k.id = n.id => k.version <= n.version
    <3> TAKE k \in S
    <3> HAVE k.id = n.id
    <3>1. k.version \in V
      BY <2>5
    <3> QED BY <3>1, <2>4, <2>5
  <2>7. n \in Latest(S)
    BY <2>5, <2>6 DEF Latest
  <2>8. n.id = m.id /\ n.version >= m.version
    <3>1. m.version <= n.version
      BY <2>1, <2>4, <2>5
    <3>2. m.version \in Nat /\ n.version \in Nat
      BY <2>5, MutationFields
    <3> QED BY <3>1, <3>2, <2>5
  <2> QED BY <2>7, <2>8 DEF CoveredBy
<1> QED BY <1>1, <1>2 DEF AllCovered

\* A document that is newer than all versions of it known replaces, in an
\* index, nothing newer.
LEMMA PutCovers ==
  ASSUME NEW A \in SUBSET Mutation, NEW V \in SUBSET Mutation, NEW m \in Mutation,
         AllCovered(A, V), ~CoveredBy(m, V)
  PROVE  AllCovered(A \cup {m}, PutDocument(A, m))
<1> SUFFICES ASSUME NEW k \in A \cup {m} PROVE CoveredBy(k, PutDocument(A, m))
  BY DEF AllCovered
<1>1. m \in PutDocument(A, m)
  BY DEF PutDocument
<1>2. k.version \in Nat /\ m.version \in Nat
  BY MutationFields
<1>3. CASE k.id # m.id
  <2>1. k \in PutDocument(A, m)
    BY <1>3 DEF PutDocument
  <2> QED BY <2>1, <1>2 DEF CoveredBy
<1>4. CASE k = m
  BY <1>4, <1>1, <1>2 DEF CoveredBy
<1>5. CASE k \in A /\ k.id = m.id
  <2>1. PICK v \in V : v.id = k.id /\ v.version >= k.version
    BY <1>5 DEF AllCovered, CoveredBy
  <2>2. ~(v.version >= m.version)
    BY <2>1, <1>5 DEF CoveredBy
  <2>3. v.version \in Nat
    BY MutationFields
  <2>4. m.version >= k.version
    BY <2>1, <2>2, <2>3, <1>2
  <2> QED BY <2>4, <1>1, <1>5 DEF CoveredBy
<1> QED BY <1>3, <1>4, <1>5

-----------------------------------------------------------------------------
(* Types                                                                   *)

Inv == TypeOK /\ WriterInv

\* A thread is a producer, a caller, a reader or the worker, and not two of
\* them; none is NoThread.
LEMMA ThreadFacts ==
  /\ Worker \in Threads /\ NoThread \notin Threads
  /\ \A p \in Producers : p \in Threads /\ p # Worker /\ p # NoThread /\ p \notin Callers
  /\ \A c \in Callers : c \in Threads /\ c # Worker /\ c # NoThread /\ c \notin Producers
  /\ \A r \in Readers : /\ r \in Threads /\ r # Worker /\ r # NoThread
                        /\ r \notin Producers /\ r \notin Callers
BY ThreadsAssumption DEF Threads

LEMMA AnyRequestType == AnyRequest \in Mutation
BY RequestsAssumption DEF AnyRequest

\* What put does to the indexes keeps their types.
LEMMA PutDocumentType ==
  ASSUME NEW A \in SUBSET Mutation, NEW m \in Mutation
  PROVE  PutDocument(A, m) \in SUBSET Mutation /\ PutDocument(A, m) # {}
BY DEF PutDocument

\* The steps of put and erase keep the types.
LEMMA TypePut ==
  ASSUME Inv, NEW p \in Producers,
         \/ PutStep(p) \/ PutLogFails(p)
         \/ \E m \in Requests : PutCall(p, m)
  PROVE  TypeOK'
<1>0. TypeOK /\ WriterInv
  BY DEF Inv
<1>f. ASSUME FreezeActive PROVE frozen' \in Seq((SUBSET Mutation) \ {{}}) /\ buffered' \in Nat
  BY <1>0, <1>f DEF FreezeActive, TypeOK, BufferType, WriterInv, ActiveOK
<1>1. ASSUME NEW m \in Mutation, PutEnter(p, m) PROVE TypeOK'
  <2>1. DiskType'
    BY <1>0, <1>1 DEF PutEnter, PutProceed, SleepAt, TornAppend, TypeOK, DiskType
  <2>2. BufferType'
    BY <1>0, <1>1, <1>f, PutDocumentType DEF PutEnter, PutProceed, ActiveAfterFreeze, TypeOK, BufferType
  <2>3. FlagType'
    BY <1>0, <1>1 DEF PutEnter, flags, TypeOK, FlagType
  <2>4. ThreadType'
    BY <1>0, <1>1, ThreadFacts, AnyRequestType DEF PutEnter, PutReturns, PutProceed, SleepAt, AsleepAfterFreeze, TypeOK, ThreadType, ProducerStates
  <2>5. WorkerType' /\ HistoryType'
    BY <1>0, <1>1 DEF PutEnter, worker, history, TypeOK, WorkerType, HistoryType
  <2> QED BY <2>1, <2>2, <2>3, <2>4, <2>5 DEF TypeOK
<1>2. ASSUME NEW m \in Requests, PutCall(p, m) PROVE TypeOK'
  BY <1>1, <1>2, RequestsAssumption DEF PutCall
<1>3. CASE PutReenter(p)
  BY <1>0, <1>1, <1>3 DEF PutReenter, TypeOK, ThreadType
<1>4. CASE PutAdmitted(p)
  <2>1. DiskType'
    BY <1>0, <1>4 DEF PutAdmitted, PutProceed, TornAppend, TypeOK, DiskType
  <2>2. BufferType'
    <3>1. req[p] \in Mutation
      BY <1>0 DEF TypeOK, ThreadType
    <3> QED BY <1>0, <1>4, <1>f, <3>1, PutDocumentType DEF PutAdmitted, PutProceed,
               ActiveAfterFreeze, TypeOK, BufferType
  <2>3. FlagType'
    BY <1>0, <1>4 DEF PutAdmitted, flags, TypeOK, FlagType
  <2>4. ThreadType'
    BY <1>0, <1>4, ThreadFacts, AnyRequestType DEF PutAdmitted, PutReturns, PutProceed,
       SleepAt, AsleepAfterFreeze, TypeOK, ThreadType, ProducerStates
  <2>5. WorkerType'
    BY <1>0, <1>4 DEF PutAdmitted, worker, TypeOK, WorkerType
  <2>6. HistoryType'
    BY <1>0, <1>4 DEF PutAdmitted, TypeOK, ThreadType, HistoryType
  <2> QED BY <2>1, <2>2, <2>3, <2>4, <2>5, <2>6 DEF TypeOK
<1>5. CASE PutLogged(p)
  <2>0. req[p] \in Mutation
    BY <1>0 DEF TypeOK, ThreadType
  <2>1. DiskType'
    BY <1>0, <1>5, <2>0 DEF PutLogged, TypeOK, DiskType
  <2>2. BufferType'
    <3>1. active # {}
      BY <1>0, <1>5 DEF PutLogged, WriterInv, LockOK
    <3>2. versions' \in SUBSET Mutation
      BY <1>0, <1>5, <2>0, PutDocumentType DEF PutLogged, TypeOK, BufferType
    <3>3. active' \subseteq Mutation /\ buffered' \in Nat
      BY <1>0, <1>5 DEF PutLogged, TypeOK, BufferType
    <3>4. frozen' \in Seq((SUBSET Mutation) \ {{}})
      BY <1>0, <1>5, <3>1 DEF PutLogged, TypeOK, BufferType
    <3> QED BY <3>2, <3>3, <3>4 DEF BufferType
  <2>3. FlagType'
    BY <1>0, <1>5 DEF PutLogged, flags, TypeOK, FlagType
  <2>4. ThreadType'
    <3>1. p \in Threads
      BY ThreadFacts
    <3>2. pc' = [pc EXCEPT ![p] = "idle"] \/ pc' = [pc EXCEPT ![p] = "put_full"]
      BY <1>5 DEF PutLogged, PutReturns, SleepAt
    <3>3. asleep' \in {asleep, {}, asleep \cup {p}} /\ mutex' = NoThread
      BY <1>5 DEF PutLogged, SleepAt
    <3>4. req' = req \/ req' = [req EXCEPT ![p] = AnyRequest]
      BY <1>5 DEF PutLogged, PutReturns
    <3>5. op' = op /\ view' = view
      BY <1>5 DEF PutLogged
    <3> QED BY <1>0, <3>1, <3>2, <3>3, <3>4, <3>5, AnyRequestType
            DEF TypeOK, ThreadType, ProducerStates
  <2>5. WorkerType'
    BY <1>0, <1>5 DEF PutLogged, worker, TypeOK, WorkerType
  <2>6. HistoryType'
    BY <1>0, <1>5, <2>0 DEF PutLogged, TypeOK, HistoryType
  <2> QED BY <2>1, <2>2, <2>3, <2>4, <2>5, <2>6 DEF TypeOK
<1>6. CASE PutLogFails(p)
  <2>0. req[p] \in Mutation
    BY <1>0 DEF TypeOK, ThreadType
  <2>1. DiskType'
    BY <1>0, <1>6, <2>0 DEF PutLogFails, TypeOK, DiskType
  <2>2. BufferType'
    BY <1>0, <1>6 DEF PutLogFails, buffer, TypeOK, BufferType
  <2>3. FlagType'
    BY <1>0, <1>6 DEF PutLogFails, StickyError, TypeOK, FlagType
  <2>4. ThreadType'
    BY <1>0, <1>6, ThreadFacts, AnyRequestType DEF PutLogFails, PutReturns,
       TypeOK, ThreadType, ProducerStates
  <2>5. WorkerType'
    BY <1>0, <1>6 DEF PutLogFails, worker, TypeOK, WorkerType
  <2>6. HistoryType'
    BY <1>0, <1>6 DEF PutLogFails, TypeOK, HistoryType
  <2> QED BY <2>1, <2>2, <2>3, <2>4, <2>5, <2>6 DEF TypeOK
<1>7. CASE PutFull(p)
  <2>0. req[p] \in Mutation
    BY <1>0 DEF TypeOK, ThreadType
  <2>1. DiskType'
    BY <1>0, <1>7 DEF PutFull, disk, TypeOK, DiskType
  <2>2. BufferType'
    BY <1>0, <1>7, <1>f DEF PutFull, ActiveAfterFreeze, TypeOK, BufferType
  <2>3. FlagType'
    BY <1>0, <1>7 DEF PutFull, flags, TypeOK, FlagType
  <2>4. ThreadType'
    BY <1>0, <1>7, ThreadFacts, AnyRequestType DEF PutFull, PutReturns, SleepAt,
       AsleepAfterFreeze, TypeOK, ThreadType, ProducerStates
  <2>5. WorkerType'
    BY <1>0, <1>7 DEF PutFull, worker, TypeOK, WorkerType
  <2>6. HistoryType'
    BY <1>0, <1>7, <2>0 DEF PutFull, TypeOK, HistoryType
  <2> QED BY <2>1, <2>2, <2>3, <2>4, <2>5, <2>6 DEF TypeOK
<1> QED BY <1>2, <1>3, <1>4, <1>5, <1>6, <1>7 DEF PutStep

\* The steps of refresh and the destructor keep the types.
LEMMA TypeRefresh ==
  ASSUME Inv, NEW c \in Callers,
         \/ RefreshReenter(c) \/ RefreshCapacity(c) \/ RefreshIdle(c)
         \/ RefreshReset(c) \/ RefreshResetFails(c) \/ CloseStop(c)
         \/ \E o \in Operations : RefreshCall(c, o)
  PROVE  TypeOK'
<1>0. TypeOK /\ WriterInv
  BY DEF Inv
<1>c. c \in Threads /\ AfterRefresh(c, TRUE) \in CallerStates
                    /\ AfterRefresh(c, FALSE) \in CallerStates
  BY ThreadFacts DEF AfterRefresh, CallerStates
<1>f. ASSUME FreezeActive PROVE frozen' \in Seq((SUBSET Mutation) \ {{}}) /\ buffered' \in Nat
  BY <1>0, <1>f DEF FreezeActive, TypeOK, BufferType, WriterInv, ActiveOK
<1>w. ASSUME NEW S \in SUBSET Threads, NEW q, AwaitIdle(c, q, S), UNCHANGED <<req, op, view>>
      PROVE  ThreadType'
  BY <1>0, <1>w, <1>c DEF AwaitIdle, TypeOK, ThreadType, CallerStates
<1>1. ASSUME NEW o \in AllOperations, RefreshEnter(c, o),
             op' = op \/ op' = [op EXCEPT ![c] = o]
      PROVE  TypeOK'
  <2>1. DiskType'
    BY <1>0, <1>1 DEF RefreshEnter, disk, TypeOK, DiskType
  <2>2. BufferType'
    BY <1>0, <1>1, <1>f DEF RefreshEnter, TypeOK, BufferType
  <2>3. FlagType'
    BY <1>0, <1>1 DEF RefreshEnter, TypeOK, FlagType
  <2>4. ThreadType'
    BY <1>0, <1>1, <1>c DEF RefreshEnter, AwaitIdle, SleepAt, TypeOK, ThreadType, CallerStates
  <2>5. WorkerType'
    BY <1>0, <1>1 DEF RefreshEnter, worker, TypeOK, WorkerType
  <2>6. HistoryType'
    BY <1>0, <1>1 DEF RefreshEnter, TypeOK, HistoryType
  <2> QED BY <2>1, <2>2, <2>3, <2>4, <2>5, <2>6 DEF TypeOK
<1>2. ASSUME NEW o \in Operations, RefreshCall(c, o) PROVE TypeOK'
  BY <1>1, <1>2, LimitsAssumption DEF RefreshCall
<1>3. CASE RefreshReenter(c)
  BY <1>0, <1>1, <1>3 DEF RefreshReenter, TypeOK, ThreadType
<1>4. CASE RefreshCapacity(c)
  <2>1. DiskType'
    BY <1>0, <1>4 DEF RefreshCapacity, disk, TypeOK, DiskType
  <2>2. BufferType'
    BY <1>0, <1>4, <1>f DEF RefreshCapacity, ActiveAfterFreeze, TypeOK, BufferType
  <2>3. FlagType'
    BY <1>0, <1>4 DEF RefreshCapacity, RefreshFails, FinishRefresh, TypeOK, FlagType
  <2>4. ThreadType'
    <3>1. asleep \in SUBSET Threads /\ AsleepAfterFreeze \in SUBSET Threads
      BY <1>0 DEF TypeOK, ThreadType, AsleepAfterFreeze
    <3> QED BY <1>0, <1>4, <1>c, <1>w, <3>1 DEF RefreshCapacity, RefreshFails, FinishRefresh,
               SleepAt, TypeOK, ThreadType, CallerStates
  <2>5. WorkerType'
    BY <1>0, <1>4 DEF RefreshCapacity, worker, TypeOK, WorkerType
  <2>6. HistoryType'
    BY <1>0, <1>4 DEF RefreshCapacity, RefreshFails, FinishRefresh, TypeOK, HistoryType
  <2> QED BY <2>1, <2>2, <2>3, <2>4, <2>5, <2>6 DEF TypeOK
<1>5. CASE RefreshIdle(c)
  <2>1. DiskType' /\ BufferType'
    BY <1>0, <1>5 DEF RefreshIdle, disk, buffer, TypeOK, DiskType, BufferType
  <2>3. FlagType'
    BY <1>0, <1>5 DEF RefreshIdle, RefreshFails, FinishRefresh, TypeOK, FlagType
  <2>4. ThreadType'
    <3>1. asleep \in SUBSET Threads
      BY <1>0 DEF TypeOK, ThreadType
    <3> QED BY <1>0, <1>5, <1>c, <1>w, <3>1 DEF RefreshIdle, RefreshFails, FinishRefresh,
               TypeOK, ThreadType
  <2>5. WorkerType'
    BY <1>0, <1>5 DEF RefreshIdle, worker, TypeOK, WorkerType
  <2>6. HistoryType'
    BY <1>0, <1>5 DEF RefreshIdle, RefreshFails, FinishRefresh, TypeOK, HistoryType
  <2> QED BY <2>1, <2>3, <2>4, <2>5, <2>6 DEF TypeOK
<1>6. CASE RefreshReset(c)
  <2>1. DiskType' /\ BufferType'
    BY <1>0, <1>6 DEF RefreshReset, buffer, TypeOK, DiskType, BufferType
  <2>3. FlagType'
    BY <1>0, <1>6 DEF RefreshReset, FinishRefresh, TypeOK, FlagType
  <2>4. ThreadType'
    BY <1>0, <1>6, <1>c DEF RefreshReset, FinishRefresh, TypeOK, ThreadType
  <2>5. WorkerType'
    BY <1>0, <1>6 DEF RefreshReset, worker, TypeOK, WorkerType
  <2>6. HistoryType'
    BY <1>0, <1>6 DEF RefreshReset, FinishRefresh, TypeOK, HistoryType
  <2> QED BY <2>1, <2>3, <2>4, <2>5, <2>6 DEF TypeOK
<1>7. CASE RefreshResetFails(c)
  <2>1. DiskType'
    <3>1. (wal' = wal /\ torn' = torn) \/ (wal' = <<>> /\ torn' = "no")
      BY <1>7 DEF RefreshResetFails
    <3>2. UNCHANGED <<segs, manifests, current>>
      BY <1>7 DEF RefreshResetFails
    <3>3. <<>> \in Seq(Mutation)
      OBVIOUS
    <3>4. wal \in Seq(Mutation) /\ torn \in {"no", "tail", "buried"}
      BY <1>0 DEF TypeOK, DiskType
    <3>5. wal' \in Seq(Mutation) /\ torn' \in {"no", "tail", "buried"}
      BY <3>1, <3>3, <3>4
    <3> QED BY <1>0, <3>2, <3>5 DEF TypeOK, DiskType
  <2>2. BufferType'
    BY <1>0, <1>7 DEF RefreshResetFails, buffer, TypeOK, BufferType
  <2>3. FlagType'
    BY <1>0, <1>7 DEF RefreshResetFails, RefreshFails, FinishRefresh, StickyError, TypeOK, FlagType
  <2>4. ThreadType'
    BY <1>0, <1>7, <1>c DEF RefreshResetFails, RefreshFails, FinishRefresh, TypeOK, ThreadType
  <2>5. WorkerType'
    BY <1>0, <1>7 DEF RefreshResetFails, worker, TypeOK, WorkerType
  <2>6. HistoryType'
    BY <1>0, <1>7 DEF RefreshResetFails, RefreshFails, FinishRefresh, TypeOK, HistoryType
  <2> QED BY <2>1, <2>2, <2>3, <2>4, <2>5, <2>6 DEF TypeOK
<1>8. CASE CloseStop(c)
  <2>1. DiskType' /\ BufferType' /\ WorkerType' /\ HistoryType'
    BY <1>0, <1>8 DEF CloseStop, disk, buffer, worker, history, TypeOK, DiskType, BufferType,
       WorkerType, HistoryType
  <2>3. FlagType'
    BY <1>0, <1>8 DEF CloseStop, TypeOK, FlagType
  <2>4. ThreadType'
    BY <1>0, <1>8, <1>c DEF CloseStop, TypeOK, ThreadType, CallerStates
  <2> QED BY <2>1, <2>3, <2>4 DEF TypeOK
<1> QED BY <1>2, <1>3, <1>4, <1>5, <1>6, <1>7, <1>8

\* The documents of segments, and the segments of generations, have types.
LEMMA FileTypes ==
  ASSUME TypeOK
  PROVE  /\ \A ids : SegmentDocs(ids) \in SUBSET Mutation
         /\ \A g : ManifestSegments(g) \in SUBSET Nat
         /\ NoManifest \in Generation
         /\ NoJob.stage \in Stages /\ NoJob.next = NoManifest
         /\ NoJob \in [stage : Stages, owner : Callers \cup {Worker}, merge : BOOLEAN,
                       id : Nat, docs : SUBSET Mutation, next : Generation,
                       obsolete : Generation]
<1>1. \A ids : SegmentDocs(ids) \in SUBSET Mutation
  BY DEF TypeOK, DiskType, SegmentDocs
<1>2. \A g : ManifestSegments(g) \in SUBSET Nat
  BY DEF TypeOK, DiskType, ManifestSegments
<1>3. NoManifest \in Generation
  BY DEF NoManifest, Generation
<1> QED BY <1>1, <1>2, <1>3 DEF NoJob, Stages

\* The worker's own steps, and the start of a merge, keep the types.
LEMMA TypeWorker ==
  ASSUME Inv,
         \/ WorkerTake \/ WorkerFlush \/ WorkerDone
         \/ \E t \in Callers \cup {Worker} : Compact(t) \/ CompactNothing(t)
  PROVE  TypeOK'
<1>0. TypeOK /\ WriterInv
  BY DEF Inv
<1>1. CASE WorkerTake
  <2>0. frozen \in Seq((SUBSET Mutation) \ {{}})
    BY <1>0 DEF TypeOK, BufferType
  <2>1. DiskType' /\ HistoryType'
    BY <1>0, <1>1 DEF WorkerTake, disk, history, TypeOK, DiskType, HistoryType
  <2>2. BufferType'
    BY <1>0, <1>1, <2>0 DEF WorkerTake, TypeOK, BufferType
  <2>3. FlagType'
    BY <1>0, <1>1 DEF WorkerTake, TypeOK, FlagType
  <2>4. ThreadType'
    BY <1>0, <1>1, ThreadFacts DEF WorkerTake, SleepAt, TypeOK, ThreadType, WorkerStates
  <2>5. WorkerType'
    <3>1. frozen # <<>> => Head(frozen) \in SUBSET Mutation
      BY <2>0
    <3> QED BY <1>0, <1>1, <3>1 DEF WorkerTake, TypeOK, WorkerType
  <2> QED BY <2>1, <2>2, <2>3, <2>4, <2>5 DEF TypeOK
<1>2. CASE WorkerFlush
  <2>1. DiskType' /\ HistoryType' /\ BufferType' /\ FlagType'
    BY <1>0, <1>2 DEF WorkerFlush, disk, history, buffer, flags, TypeOK, DiskType, HistoryType,
       BufferType, FlagType
  <2>4. ThreadType'
    BY <1>0, <1>2, ThreadFacts DEF WorkerFlush, TypeOK, ThreadType, WorkerStates
  <2>5. WorkerType'
    <3>1. [generation |-> manifest.generation + 1, segments |-> FlushedSegments] \in Generation
      BY <1>0 DEF TypeOK, WorkerType, Generation, FlushedSegments
    <3>2. job' \in [stage : Stages, owner : Callers \cup {Worker}, merge : BOOLEAN,
                    id : Nat, docs : SUBSET Mutation, next : Generation,
                    obsolete : Generation]
      BY <1>0, <1>2, <3>1, FileTypes DEF WorkerFlush, NoJob, TypeOK, WorkerType, Stages
    <3> QED BY <1>0, <1>2, <3>2 DEF WorkerFlush, TypeOK, WorkerType
  <2> QED BY <2>1, <2>4, <2>5 DEF TypeOK
<1>3. CASE WorkerDone
  <2>1. DiskType' /\ HistoryType' /\ BufferType'
    BY <1>0, <1>3 DEF WorkerDone, disk, history, buffer, TypeOK, DiskType, HistoryType, BufferType
  <2>3. FlagType'
    BY <1>0, <1>3 DEF WorkerDone, StickyError, TypeOK, FlagType
  <2>4. ThreadType'
    BY <1>0, <1>3, ThreadFacts DEF WorkerDone, TypeOK, ThreadType, WorkerStates
  <2>5. WorkerType'
    BY <1>0, <1>3 DEF WorkerDone, TypeOK, WorkerType
  <2> QED BY <2>1, <2>3, <2>4, <2>5 DEF TypeOK
<1>4. ASSUME NEW t \in Callers \cup {Worker}, Compact(t) PROVE TypeOK'
  <2>1. DiskType' /\ HistoryType' /\ BufferType' /\ FlagType'
    BY <1>0, <1>4 DEF Compact, disk, history, buffer, flags, TypeOK, DiskType, HistoryType,
       BufferType, FlagType
  <2>4. ThreadType'
    BY <1>0, <1>4, ThreadFacts DEF Compact, TypeOK, ThreadType, WorkerStates
  <2>5. WorkerType'
    <3>1. PICK chosen \in Selections :
            job' = [stage |-> "segment", owner |-> t, merge |-> TRUE,
                    id |-> nextSeg, docs |-> Latest(SegmentDocs(Opened(chosen))),
                    next |-> [generation |-> manifest.generation + 1,
                              segments |-> CompactedSegments(chosen)],
                    obsolete |-> manifest]
      BY <1>4 DEF Compact
    <3>2. [generation |-> manifest.generation + 1, segments |-> CompactedSegments(chosen)]
             \in Generation
      BY <1>0 DEF TypeOK, WorkerType, Generation, CompactedSegments
    <3>3. Latest(SegmentDocs(Opened(chosen))) \in SUBSET Mutation
      BY <1>0, FileTypes, LatestCovers
    <3>4. nextSeg \in Nat /\ manifest \in Generation
      BY <1>0 DEF TypeOK, WorkerType
    <3>5. job' \in [stage : Stages, owner : Callers \cup {Worker}, merge : BOOLEAN,
                    id : Nat, docs : SUBSET Mutation, next : Generation,
                    obsolete : Generation]
      BY <3>1, <3>2, <3>3, <3>4 DEF Stages
    <3> QED BY <1>0, <1>4, <3>5 DEF Compact, TypeOK, WorkerType
  <2> QED BY <2>1, <2>4, <2>5 DEF TypeOK
<1>5. ASSUME NEW t \in Callers \cup {Worker}, CompactNothing(t) PROVE TypeOK'
  <2>1. DiskType' /\ HistoryType' /\ BufferType' /\ FlagType' /\ WorkerType'
    BY <1>0, <1>5 DEF CompactNothing, disk, history, buffer, flags, worker, TypeOK, DiskType,
       HistoryType, BufferType, FlagType, WorkerType
  <2>4. ThreadType'
    BY <1>0, <1>5, ThreadFacts DEF CompactNothing, TypeOK, ThreadType, WorkerStates, CallerStates
  <2> QED BY <2>1, <2>4 DEF TypeOK
<1> QED BY <1>1, <1>2, <1>3, <1>4, <1>5

\* The steps of a publication keep the types.
LEMMA TypeJob ==
  ASSUME Inv, JobStep \/ JobFault
  PROVE  TypeOK'
<1>0. TypeOK /\ WriterInv
  BY DEF Inv
<1> DEFINE JobType == [stage : Stages, owner : Callers \cup {Worker}, merge : BOOLEAN,
                       id : Nat, docs : SUBSET Mutation, next : Generation,
                       obsolete : Generation]
<1>j. job \in JobType /\ NoJob \in JobType
  BY <1>0, FileTypes DEF TypeOK, WorkerType
<1>s. WithSegment([id |-> job.id, docs |-> job.docs])
        \subseteq [id : Nat, docs : SUBSET Mutation]
  BY <1>0, <1>j DEF WithSegment, TypeOK, DiskType
<1>m. WithManifest(job.next) \subseteq [generation : Nat, segments : SUBSET Nat]
  BY <1>0, <1>j DEF WithManifest, TypeOK, DiskType, Generation
<1>n. job.next \in Generation /\ job.next.generation \in Nat
  BY <1>j DEF Generation
<1>e. ASSUME NEW ok \in BOOLEAN, JobEnds(ok), UNCHANGED <<asleep, mutex, req, op, view>>
      PROVE  ThreadType' /\ job' \in JobType
  <2>1. CompactReturn(job.owner, ok) \in WorkerStates \cup CallerStates
    BY DEF CompactReturn, WorkerStates, CallerStates
  <2> QED BY <1>0, <1>j, <1>e, <2>1 DEF JobEnds, TypeOK, ThreadType
<1>t. ASSUME UNCHANGED threads PROVE ThreadType'
  BY <1>0, <1>t DEF threads, TypeOK, ThreadType
<1>g. \A st \in Stages : [job EXCEPT !.stage = st] \in JobType
  BY <1>j
<1>w. ASSUME job' \in JobType, UNCHANGED <<snapshot, nextSeg>>,
             manifest' = manifest \/ manifest' = job.next
      PROVE  WorkerType'
  BY <1>0, <1>n, <1>w DEF TypeOK, WorkerType
<1> HIDE DEF JobType
<1>1. CASE JobSegment
  <2>1. DiskType'
    BY <1>0, <1>1, <1>s DEF JobSegment, TypeOK, DiskType
  <2>2. BufferType' /\ FlagType' /\ HistoryType'
    BY <1>0, <1>1 DEF JobSegment, buffer, flags, history, TypeOK, BufferType, FlagType, HistoryType
  <2>3. WorkerType' /\ ThreadType'
    BY <1>1, <1>g, <1>w, <1>t DEF JobSegment, Stages
  <2> QED BY <2>1, <2>2, <2>3 DEF TypeOK
<1>2. CASE JobManifest
  <2>1. DiskType'
    BY <1>0, <1>2, <1>m DEF JobManifest, TypeOK, DiskType
  <2>2. BufferType' /\ FlagType' /\ HistoryType'
    BY <1>0, <1>2 DEF JobManifest, buffer, flags, history, TypeOK, BufferType, FlagType, HistoryType
  <2>3. WorkerType' /\ ThreadType'
    BY <1>2, <1>g, <1>w, <1>t DEF JobManifest, Stages
  <2> QED BY <2>1, <2>2, <2>3 DEF TypeOK
<1>3. CASE JobRefused
  <2>1. DiskType' /\ BufferType' /\ FlagType' /\ HistoryType'
    BY <1>0, <1>3 DEF JobRefused, disk, buffer, flags, history, TypeOK, DiskType, BufferType,
       FlagType, HistoryType
  <2>2. WorkerType' /\ ThreadType'
    BY <1>3, <1>e, <1>w DEF JobRefused
  <2> QED BY <2>1, <2>2 DEF TypeOK
<1>4. CASE JobCurrent
  <2>1. DiskType'
    BY <1>0, <1>4, <1>n DEF JobCurrent, TypeOK, DiskType
  <2>2. BufferType' /\ FlagType' /\ HistoryType'
    BY <1>0, <1>4 DEF JobCurrent, buffer, flags, history, TypeOK, BufferType, FlagType, HistoryType
  <2>3. WorkerType' /\ ThreadType'
    BY <1>4, <1>g, <1>w, <1>t DEF JobCurrent, Stages
  <2> QED BY <2>1, <2>2, <2>3 DEF TypeOK
<1>5. CASE JobInstall
  <2>1. DiskType' /\ BufferType' /\ FlagType' /\ HistoryType'
    BY <1>0, <1>5 DEF JobInstall, disk, buffer, flags, history, TypeOK, DiskType, BufferType,
       FlagType, HistoryType
  <2>2. CASE job' = [job EXCEPT !.stage = "reclaim"] /\ UNCHANGED pc
    <3>1. WorkerType'
      BY <1>5, <2>2, <1>g, <1>w DEF JobInstall, InstalledManifest, Stages
    <3>2. ThreadType'
      BY <1>5, <2>2, <1>t DEF JobInstall, threads
    <3> QED BY <2>1, <3>1, <3>2 DEF TypeOK
  <2>3. CASE job' = NoJob /\ pc' = [pc EXCEPT ![Worker] = "merge"]
    <3>1. WorkerType'
      BY <1>5, <2>3, <1>j, <1>w DEF JobInstall, InstalledManifest
    <3>2. ThreadType'
      BY <1>0, <1>5, <2>3, ThreadFacts DEF JobInstall, TypeOK, ThreadType, WorkerStates
    <3> QED BY <2>1, <3>1, <3>2 DEF TypeOK
  <2>4. CASE JobEnds(TRUE)
    <3>1. WorkerType' /\ ThreadType'
      BY <1>5, <2>4, <1>e, <1>w DEF JobInstall, InstalledManifest
    <3> QED BY <2>1, <3>1 DEF TypeOK
  <2> QED BY <1>5, <2>2, <2>3, <2>4 DEF JobInstall
<1>6. CASE JobReclaim
  <2>1. DiskType'
    BY <1>0, <1>6 DEF JobReclaim, TypeOK, DiskType
  <2>2. BufferType' /\ FlagType' /\ HistoryType'
    BY <1>0, <1>6 DEF JobReclaim, buffer, flags, history, TypeOK, BufferType, FlagType, HistoryType
  <2>3. WorkerType' /\ ThreadType'
    BY <1>j, <1>6, <1>w, <1>t DEF JobReclaim, worker
  <2> QED BY <2>1, <2>2, <2>3 DEF TypeOK
<1>7. CASE JobReclaimed
  <2>1. DiskType'
    BY <1>0, <1>7 DEF JobReclaimed, TypeOK, DiskType
  <2>2. BufferType' /\ FlagType' /\ HistoryType'
    BY <1>0, <1>7 DEF JobReclaimed, buffer, flags, history, TypeOK, BufferType, FlagType, HistoryType
  <2>3. WorkerType' /\ ThreadType'
    BY <1>7, <1>e, <1>w DEF JobReclaimed
  <2> QED BY <2>1, <2>2, <2>3 DEF TypeOK
<1>8. CASE JobFault
  <2>1. DiskType'
    <3>1. segs' \in {segs, WithSegment([id |-> job.id, docs |-> job.docs])}
      BY <1>8 DEF JobFault
    <3>2. manifests' \in {manifests, WithManifest(job.next)}
      BY <1>8 DEF JobFault
    <3>3. current' \in {current, job.next.generation}
      BY <1>8 DEF JobFault
    <3>4. wal' = wal /\ torn' = torn
      BY <1>8 DEF JobFault
    <3> QED BY <1>0, <1>s, <1>m, <1>n, <3>1, <3>2, <3>3, <3>4 DEF TypeOK, DiskType
  <2>2. BufferType' /\ FlagType'
    BY <1>0, <1>8 DEF JobFault, buffer, flags, TypeOK, BufferType, FlagType
  <2>3. HistoryType'
    BY <1>0, <1>8 DEF JobFault, TypeOK, HistoryType
  <2>4. WorkerType' /\ ThreadType'
    BY <1>8, <1>e, <1>w DEF JobFault
  <2> QED BY <2>1, <2>2, <2>3, <2>4 DEF TypeOK
<1> QED BY <1>1, <1>2, <1>3, <1>4, <1>5, <1>6, <1>7, <1>8 DEF JobStep

\* The steps of open_search_view keep the types.
LEMMA TypeView ==
  ASSUME Inv, NEW r \in Readers, ReaderStep(r) \/ ViewBegin(r)
  PROVE  TypeOK'
<1>0. TypeOK /\ WriterInv
  BY DEF Inv
<1> DEFINE ViewType == [generation : Nat, segments : SUBSET Nat, docs : SUBSET Mutation]
<1>1. DiskType' /\ BufferType' /\ FlagType' /\ WorkerType' /\ HistoryType'
  BY <1>0 DEF ReaderStep, ViewBegin, ViewManifest, ViewSegments, ViewEnd, disk, buffer, flags,
     worker, history, TypeOK, DiskType, BufferType, FlagType, WorkerType, HistoryType
<1>2. view' \in [Readers -> ViewType]
  <2>0. view \in [Readers -> ViewType] /\ NoView \in ViewType /\ current \in Nat
    BY <1>0 DEF TypeOK, ThreadType, DiskType, NoView
  <2>1. CASE ViewBegin(r)
    BY <2>0, <2>1 DEF ViewBegin
  <2>2. CASE ViewManifest(r)
    <3>1. ManifestSegments(view[r].generation) \in SUBSET Nat
      BY <1>0, FileTypes
    <3> QED BY <2>0, <2>2, <3>1 DEF ViewManifest
  <2>3. CASE ViewSegments(r)
    <3>1. Latest(SegmentDocs(view[r].segments)) \in SUBSET Mutation
      BY <1>0, FileTypes, LatestCovers
    <3> QED BY <2>0, <2>3, <3>1 DEF ViewSegments
  <2>4. CASE ViewEnd(r)
    BY <2>0, <2>4 DEF ViewEnd
  <2> QED BY <2>1, <2>2, <2>3, <2>4 DEF ReaderStep
<1>3. \E st \in ReaderStates : pc' = [pc EXCEPT ![r] = st]
  BY DEF ReaderStep, ViewBegin, ViewManifest, ViewSegments, ViewEnd, ReaderStates
<1>4. mutex' \in {mutex, r, NoThread} /\ UNCHANGED <<asleep, req, op>>
  BY DEF ReaderStep, ViewBegin, ViewManifest, ViewSegments, ViewEnd
<1>5. ThreadType'
  BY <1>0, <1>2, <1>3, <1>4, ThreadFacts DEF TypeOK, ThreadType
<1> QED BY <1>1, <1>5 DEF TypeOK

\* The end of the process keeps the types.
LEMMA TypeHalt ==
  ASSUME Inv, Halt, wal' \in Seq(Mutation), torn' \in {"no", "tail", "buried"}
  PROVE  TypeOK'
<1>0. TypeOK /\ WriterInv
  BY DEF Inv
<1>1. DiskType'
  BY <1>0 DEF Halt, TypeOK, DiskType
<1>2. BufferType' /\ FlagType'
  <2>1. <<>> \in Seq((SUBSET Mutation) \ {{}}) /\ 0 \in Nat
    OBVIOUS
  <2>2. FlagType'
    BY DEF Halt, FlagType
  <2>3. versions' = {} /\ active' = {} /\ buffered' = 0 /\ frozen' = <<>>
    BY DEF Halt
  <2> QED BY <2>1, <2>2, <2>3 DEF BufferType
<1>3. WorkerType'
  BY <1>0, FileTypes DEF Halt, WorkerType
<1>4. ThreadType'
  BY AnyRequestType DEF Halt, ThreadType, NoView, AllOperations, ProducerStates, WorkerStates
<1>5. HistoryType'
  BY <1>0 DEF Halt, TypeOK, HistoryType
<1> QED BY <1>1, <1>2, <1>3, <1>4, <1>5 DEF TypeOK

\* The ways a process may end leave a well-formed log.
LEMMA TypeStop ==
  ASSUME Inv, \/ Crash \/ \E c \in Callers : CloseJoin(c)
              \/ \E t \in Callers \cup {Worker} : CompactOverrun(t)
  PROVE  TypeOK'
<1>0. wal \in Seq(Mutation) /\ torn \in {"no", "tail", "buried"}
  BY DEF Inv, TypeOK, DiskType
<1>1. CASE Crash
  <2>1. CASE UNCHANGED <<wal, torn>>
    BY <1>0, <1>1, <2>1, TypeHalt DEF Crash
  <2>2. ASSUME NEW p \in Producers, torn' = "no", wal' \in {wal, Append(wal, req[p])}
        PROVE  TypeOK'
    <3>1. req[p] \in Mutation
      BY DEF Inv, TypeOK, ThreadType
    <3>2. wal' \in Seq(Mutation)
      BY <1>0, <2>2, <3>1
    <3> QED BY <1>1, <2>2, <3>2, TypeHalt DEF Crash
  <2>3. CASE wal' = <<>> /\ torn' = "no"
    BY <1>1, <2>3, TypeHalt DEF Crash
  <2> QED BY <1>1, <2>1, <2>2, <2>3 DEF Crash
<1>2. CASE \E c \in Callers : CloseJoin(c)
  BY <1>0, <1>2, TypeHalt DEF CloseJoin
<1>3. CASE \E t \in Callers \cup {Worker} : CompactOverrun(t)
  BY <1>0, <1>3, TypeHalt DEF CompactOverrun
<1> QED BY <1>1, <1>2, <1>3

\* What replay puts into the active index.
LEMMA ReplayedFacts ==
  ASSUME TypeOK
  PROVE  /\ {wal[i] : i \in Replayed} \in SUBSET Mutation
         /\ IsFiniteSet(Replayed) /\ Cardinality(Replayed) \in Nat
         /\ Cardinality(Replayed) = 0 <=> Replayed = {}
         /\ Published \in SUBSET Mutation
<1>1. Replayed \subseteq 1..Len(wal) /\ wal \in Seq(Mutation) /\ Len(wal) \in Nat
  BY DEF Replayed, TypeOK, DiskType
<1>2. \A i \in Replayed : wal[i] \in Mutation
  BY <1>1
<1>3. IsFiniteSet(1..Len(wal))
  BY <1>1, FS_Interval
<1>4. IsFiniteSet(Replayed)
  BY <1>1, <1>3, FS_Subset
<1>5. Cardinality(Replayed) \in Nat
  BY <1>4, FS_CardinalityType
<1>6. Cardinality(Replayed) = 0 <=> Replayed = {}
  BY <1>4, FS_EmptySet
<1>7. Published \in SUBSET Mutation
  BY FileTypes DEF Published
<1> QED BY <1>2, <1>4, <1>5, <1>6, <1>7

\* IndexWriter::open establishes the types.
LEMMA TypeOpen ==
  ASSUME Inv, Open
  PROVE  TypeOK'
<1>0. TypeOK /\ WriterInv
  BY DEF Inv
<1>1. DiskType'
  BY <1>0 DEF Open, TypeOK, DiskType
<1>2. BufferType'
  <2>1. active' \in SUBSET Mutation
    BY <1>0, ReplayedFacts, LatestCovers DEF Open
  <2>2. Published \cup {wal[i] : i \in Replayed} \in SUBSET Mutation
    BY <1>0, ReplayedFacts
  <2>3. versions' \in SUBSET Mutation
    BY <2>2, LatestCovers DEF Open
  <2>4. buffered' \in Nat /\ frozen' = frozen
    BY <1>0, ReplayedFacts DEF Open
  <2> QED BY <1>0, <2>1, <2>3, <2>4 DEF TypeOK, BufferType
<1>3. FlagType' /\ ThreadType' /\ HistoryType'
  BY <1>0 DEF Open, flags, threads, history, TypeOK, FlagType, ThreadType, HistoryType
<1>4. WorkerType'
  <2>1. ManifestSegments(current) \in SUBSET Nat /\ current \in Nat
    BY <1>0, FileTypes DEF TypeOK, DiskType
  <2>2. NextId(ManifestSegments(current)) \in Nat
    BY <1>0, <2>1, NextIdFresh DEF WriterInv, GenerationOK
  <2>3. manifest' \in Generation
    BY <2>1 DEF Open, Generation
  <2> QED BY <1>0, <2>2, <2>3 DEF Open, TypeOK, WorkerType
<1> QED BY <1>1, <1>2, <1>3, <1>4 DEF TypeOK

\* Every step keeps the types.
LEMMA TypeStep ==
  ASSUME Inv, [Next]_vars
  PROVE  TypeOK'
<1>1. CASE UNCHANGED vars
  BY <1>1 DEF vars, disk, buffer, flags, threads, worker, history, Inv, TypeOK, DiskType,
     BufferType, FlagType, ThreadType, WorkerType, HistoryType
<1>2. CASE Next
  BY <1>2, TypePut, TypeRefresh, TypeWorker, TypeJob, TypeView, TypeStop, TypeOpen
     DEF Next, CallerStep, WorkerStep
<1> QED BY <1>1, <1>2

-----------------------------------------------------------------------------
(* What the steps of a thread leave alone                                  *)

PutAction(p) == \/ PutStep(p) \/ PutLogFails(p)
                \/ \E m \in Requests : PutCall(p, m)

RefreshAction(c) ==
  \/ RefreshReenter(c) \/ RefreshCapacity(c) \/ RefreshIdle(c)
  \/ RefreshReset(c) \/ RefreshResetFails(c) \/ CloseStop(c)
  \/ \E o \in Operations : RefreshCall(c, o)

ViewAction(r) == ReaderStep(r) \/ ViewBegin(r)

CompactAction == \E t \in Callers \cup {Worker} : Compact(t) \/ CompactNothing(t)

WorkerAction == WorkerTake \/ WorkerFlush \/ WorkerDone \/ CompactAction

HaltAction == \/ Crash
              \/ \E c \in Callers : CloseJoin(c)
              \/ \E t \in Callers \cup {Worker} : CompactOverrun(t)

\* Next, by the thread that takes the step.
LEMMA NextActions ==
  ASSUME Next
  PROVE  \/ \E p \in Producers : PutAction(p)
         \/ \E c \in Callers : RefreshAction(c)
         \/ \E r \in Readers : ViewAction(r)
         \/ WorkerAction \/ JobStep \/ JobFault \/ HaltAction \/ Open
BY DEF Next, PutAction, RefreshAction, ViewAction, WorkerAction, CompactAction, HaltAction,
       CallerStep, WorkerStep

\* What publications depend on.
pubState == <<segs, manifests, current, up, snapshot, job, manifest, nextSeg, busy>>

\* Whoever takes a step of put runs in an open writer that it may lock, and
\* does not touch the publications or the other threads.
LEMMA PutFrame ==
  ASSUME Inv, NEW p \in Producers, PutAction(p)
  PROVE  /\ up /\ mutex \in {NoThread, p}
         /\ UNCHANGED <<pubState, refreshing, stopping, begun, promised>>
         /\ \A t \in Threads \ {p} : pc'[t] = pc[t]
         /\ \A q \in Producers \ {p} : req'[q] = req[q]
         /\ pc[p] \in ProducerStates /\ pc'[p] \in ProducerStates
<1>0. pc[p] \in ProducerStates /\ up /\ mutex \in {NoThread, p}
  <2>1. p \in Threads \ {Worker}
    BY ThreadFacts
  <2>2. ~up => pc[p] = "idle"
    BY <2>1 DEF Inv, WriterInv, DownOK
  <2> QED BY <2>2 DEF PutAction, PutStep, PutLogFails, PutCall, PutReenter, PutAdmitted,
             PutLogged, PutFull, Runs, ProducerStates
<1>1. UNCHANGED <<pubState, refreshing, stopping, begun, promised>>
  BY DEF PutAction, PutStep, PutLogFails, PutCall, PutReenter, PutAdmitted, PutLogged, PutFull,
     PutEnter, disk, flags, worker, history, pubState
<1>2. \E st \in ProducerStates : pc' = [pc EXCEPT ![p] = st]
  BY DEF PutAction, PutStep, PutLogFails, PutCall, PutReenter, PutAdmitted, PutLogged, PutFull,
     PutEnter, PutProceed, PutReturns, SleepAt, ProducerStates
<1>3. \E m : req' = [req EXCEPT ![p] = m] \/ req' = req
  BY DEF PutAction, PutStep, PutLogFails, PutCall, PutReenter, PutAdmitted, PutLogged, PutFull,
     PutEnter, PutProceed, PutReturns, SleepAt
<1>4. pc \in [Threads -> ProducerStates \cup CallerStates \cup ReaderStates \cup WorkerStates]
      /\ req \in [Producers -> Mutation] /\ p \in Threads
  BY ThreadFacts DEF Inv, TypeOK, ThreadType
<1> QED BY <1>0, <1>1, <1>2, <1>3, <1>4

\* The same of refresh and the destructor.
LEMMA RefreshFrame ==
  ASSUME Inv, NEW c \in Callers, RefreshAction(c)
  PROVE  /\ up /\ mutex \in {NoThread, c}
         /\ UNCHANGED <<pubState, versions, req, acked, overtaken>>
         /\ \A t \in Threads \ {c} : pc'[t] = pc[t]
         /\ pc[c] \in CallerStates \ {"publishing", "merge_loop"}
         /\ pc'[c] \in CallerStates \ {"publishing"}
<1>0. pc[c] \in CallerStates \ {"publishing", "merge_loop"} /\ up /\ mutex \in {NoThread, c}
  <2>1. c \in Threads \ {Worker}
    BY ThreadFacts
  <2>2. ~up => pc[c] = "idle"
    BY <2>1 DEF Inv, WriterInv, DownOK
  <2> QED BY <2>2 DEF RefreshAction, RefreshCall, RefreshReenter, RefreshCapacity, RefreshIdle,
             RefreshReset, RefreshResetFails, CloseStop, Runs, CallerStates
<1>1. UNCHANGED <<pubState, versions, req, acked, overtaken>>
  BY DEF RefreshAction, RefreshCall, RefreshReenter, RefreshCapacity, RefreshIdle, RefreshReset,
     RefreshResetFails, CloseStop, RefreshEnter, disk, buffer, worker, history, pubState
<1>2. \E st \in CallerStates \ {"publishing"} : pc' = [pc EXCEPT ![c] = st]
  BY DEF RefreshAction, RefreshCall, RefreshReenter, RefreshCapacity, RefreshIdle, RefreshReset,
     RefreshResetFails, CloseStop, RefreshEnter, AwaitIdle, SleepAt, RefreshFails, AfterRefresh,
     CallerStates
<1>3. pc \in [Threads -> ProducerStates \cup CallerStates \cup ReaderStates \cup WorkerStates]
      /\ c \in Threads
  BY ThreadFacts DEF Inv, TypeOK, ThreadType
<1> QED BY <1>0, <1>1, <1>2, <1>3

\* The same of open_search_view.
LEMMA ViewFrame ==
  ASSUME Inv, NEW r \in Readers, ViewAction(r)
  PROVE  /\ up /\ mutex \in {NoThread, r}
         /\ UNCHANGED <<disk, up, buffer, flags, req, op, worker, history>>
         /\ \A t \in Threads \ {r} : pc'[t] = pc[t]
<1>0. up /\ mutex \in {NoThread, r}
  <2>1. r \in Threads \ {Worker}
    BY ThreadFacts
  <2>2. ~up => pc[r] = "idle"
    BY <2>1 DEF Inv, WriterInv, DownOK
  <2> QED BY <2>2 DEF ViewAction, ReaderStep, ViewBegin, ViewManifest, ViewSegments, ViewEnd, Runs
<1>1. UNCHANGED <<disk, up, buffer, flags, req, op, worker, history>>
  BY DEF ViewAction, ReaderStep, ViewBegin, ViewManifest, ViewSegments, ViewEnd
<1>2. \E st : pc' = [pc EXCEPT ![r] = st]
  BY DEF ViewAction, ReaderStep, ViewBegin, ViewManifest, ViewSegments, ViewEnd
<1>3. pc \in [Threads -> ProducerStates \cup CallerStates \cup ReaderStates \cup WorkerStates]
      /\ r \in Threads
  BY ThreadFacts DEF Inv, TypeOK, ThreadType
<1> QED BY <1>0, <1>1, <1>2, <1>3

\* The worker and the start of a merge need the lock and leave the directory alone.
LEMMA WorkerFrame ==
  ASSUME Inv, WorkerAction
  PROVE  /\ up /\ mutex = NoThread
         /\ UNCHANGED <<disk, up, versions, active, buffered, refreshing, stopping, mutex, req,
                        op, view, manifest, history>>
         /\ \A q \in Producers : pc'[q] = pc[q]
         /\ \A c \in Callers : \/ pc'[c] = pc[c]
                                \/ /\ pc[c] = "merge_loop"
                                   /\ pc'[c] \in {"publishing", "idle"}
<1>0. up /\ mutex = NoThread
  BY DEF WorkerAction, CompactAction, WorkerTake, WorkerFlush, WorkerDone, Compact,
         CompactNothing, Runs
<1>1. UNCHANGED <<disk, up, versions, active, buffered, refreshing, stopping, mutex, req, op,
                  view, manifest, history>>
  BY DEF WorkerAction, CompactAction, WorkerTake, WorkerFlush, WorkerDone, Compact,
         CompactNothing, flags, buffer, worker
<1>2. \/ \E st : pc' = [pc EXCEPT ![Worker] = st]
      \/ \E c \in Callers, st \in {"publishing", "idle"} :
           pc[c] = "merge_loop" /\ pc' = [pc EXCEPT ![c] = st]
  BY ThreadFacts DEF WorkerAction, CompactAction, WorkerTake, WorkerFlush, WorkerDone, Compact,
     CompactNothing, SleepAt
<1>3. pc \in [Threads -> ProducerStates \cup CallerStates \cup ReaderStates \cup WorkerStates]
  BY DEF Inv, TypeOK, ThreadType
<1> QED BY <1>0, <1>1, <1>2, <1>3, ThreadFacts

\* A publication needs no lock, but its steps touch only the directory and
\* manifest_, and in the end bring its owner back from compact_published.
LEMMA JobFrame ==
  ASSUME Inv, JobStep \/ JobFault
  PROVE  /\ up /\ job.stage # "free" /\ pc[job.owner] = "publishing"
         /\ job.owner \in Callers \cup {Worker}
         /\ UNCHANGED <<wal, torn, up, buffer, flags, asleep, mutex, req, op, view, snapshot,
                        nextSeg, acked, begun, promised, overtaken>>
         /\ \A t \in Threads \ {job.owner} : pc'[t] = pc[t]
         /\ pc'[job.owner] \in {"publishing", "done", "failed", "merge", "merge_loop", "idle"}
         /\ pc'[job.owner] = "idle" => job.owner \in Callers
<1>0. up /\ job.stage # "free"
  BY DEF JobStep, JobFault, JobSegment, JobManifest, JobRefused, JobCurrent, JobInstall,
     JobReclaim, JobReclaimed
<1>1. pc[job.owner] = "publishing" /\ job.owner \in Callers \cup {Worker}
      /\ (~job.merge => job.owner = Worker)
  BY <1>0 DEF Inv, WriterInv, JobOK, TypeOK, WorkerType
<1>2. UNCHANGED <<wal, torn, up, buffer, flags, asleep, mutex, req, op, view, snapshot, nextSeg,
                  acked, begun, promised, overtaken>>
  BY DEF JobStep, JobFault, JobSegment, JobManifest, JobRefused, JobCurrent, JobInstall,
     JobReclaim, JobReclaimed, disk, threads, worker, history
<1>3. \/ pc' = pc
      \/ \E st \in {"done", "failed", "merge", "merge_loop", "idle"} :
           /\ pc' = [pc EXCEPT ![job.owner] = st]
           /\ st = "idle" => job.owner # Worker
  BY <1>1 DEF JobStep, JobFault, JobSegment, JobManifest, JobRefused, JobCurrent, JobInstall,
     JobReclaim, JobReclaimed, threads, JobEnds, CompactReturn
<1>4. pc \in [Threads -> ProducerStates \cup CallerStates \cup ReaderStates \cup WorkerStates]
      /\ job.owner \in Threads
  BY <1>1, ThreadFacts DEF Inv, TypeOK, ThreadType
<1> QED BY <1>0, <1>1, <1>2, <1>3, <1>4

-----------------------------------------------------------------------------
(* The lock                                                                *)

\* No producer is logging and no caller resets the log while a reader or nobody
\* holds the lock.
LEMMA NobodyElse ==
  ASSUME Inv, mutex \notin Producers \cup Callers
  PROVE  /\ \A q \in Producers : pc[q] # "append"
         /\ \A d \in Callers : pc[d] # "reset"
BY ThreadFacts DEF Inv, WriterInv, LockOK

\* Only the producer that holds the lock is logging.
LEMMA OnlyLogger ==
  ASSUME Inv, NEW p \in Producers, mutex \in {NoThread, p}
  PROVE  /\ \A q \in Producers \ {p} : pc[q] # "append"
         /\ \A d \in Callers : pc[d] # "reset"
         /\ mutex = NoThread => pc[p] # "append"
BY ThreadFacts DEF Inv, WriterInv, LockOK

\* Only the caller that holds the lock resets the log.
LEMMA OnlyResetter ==
  ASSUME Inv, NEW c \in Callers, mutex \in {NoThread, c}
  PROVE  /\ \A q \in Producers : pc[q] # "append"
         /\ \A d \in Callers \ {c} : pc[d] # "reset"
         /\ mutex = NoThread => pc[c] # "reset"
BY ThreadFacts DEF Inv, WriterInv, LockOK

\* put admits a document.
LEMMA PutProceeds ==
  ASSUME Inv, NEW p \in Producers, PutAction(p), pc'[p] = "append"
  PROVE  /\ mutex = NoThread /\ mutex' = p
         /\ ~error /\ UNCHANGED <<wal, versions, error>>
         /\ ~CoveredBy(req'[p], versions) /\ req'[p] \in Mutation
         /\ \/ /\ active' = PutDocument(active, req'[p]) /\ UNCHANGED <<frozen, buffered>>
               /\ ~refreshing /\ UNCHANGED overtaken
            \/ /\ FreezeActive
               /\ active' = PutDocument(ActiveAfterFreeze, req'[p])
               /\ \/ ~refreshing /\ UNCHANGED overtaken
                  \/ /\ pc[p] = "put_capacity"
                     /\ overtaken' = IF \E c \in Callers : pc[c] = "refresh_idle"
                                     THEN overtaken \cup {req'[p]} ELSE overtaken
<1>0. pc \in [Threads -> ProducerStates \cup CallerStates \cup ReaderStates \cup WorkerStates]
      /\ req \in [Producers -> Mutation] /\ p \in Threads
  BY ThreadFacts DEF Inv, TypeOK, ThreadType
<1>1. ASSUME NEW m \in Mutation, NEW base, PutProceed(p, m, base)
      PROVE  /\ mutex' = p /\ ~CoveredBy(req'[p], versions) /\ req'[p] = m
             /\ active' = PutDocument(base, m)
  BY <1>0, <1>1 DEF PutProceed, PutReturns, Stale
<1>2. ASSUME NEW m \in Mutation, PutEnter(p, m), Runs(p)
      PROVE  /\ mutex = NoThread /\ mutex' = p
             /\ ~error /\ UNCHANGED <<wal, versions, error, overtaken>>
             /\ ~CoveredBy(req'[p], versions) /\ req'[p] \in Mutation
             /\ ~refreshing
             /\ \/ active' = PutDocument(active, req'[p]) /\ UNCHANGED <<frozen, buffered>>
                \/ FreezeActive /\ active' = PutDocument(ActiveAfterFreeze, req'[p])
  <2>1. mutex = NoThread /\ UNCHANGED <<wal, versions, error, overtaken>>
    BY <1>2 DEF PutEnter, Runs, flags, history
  <2>2. \/ ~error /\ ~refreshing /\ PutProceed(p, m, active) /\ UNCHANGED <<frozen, buffered>>
        \/ ~error /\ ~refreshing /\ FreezeActive /\ PutProceed(p, m, ActiveAfterFreeze)
    BY <1>0, <1>2 DEF PutEnter, PutReturns, SleepAt
  <2> QED BY <1>1, <2>1, <2>2
<1>3. ASSUME NEW m \in Requests, PutCall(p, m) PROVE PutEnter(p, m) /\ Runs(p) /\ m \in Mutation
  BY <1>3, RequestsAssumption DEF PutCall
<1>4. CASE PutReenter(p)
  BY <1>0, <1>2, <1>4 DEF PutReenter
<1>5. CASE PutAdmitted(p)
  <2>1. mutex = NoThread /\ UNCHANGED <<wal, versions, error>> /\ pc[p] = "put_capacity"
    BY <1>5 DEF PutAdmitted, Runs, flags
  <2>2. /\ ~error /\ FreezeActive /\ PutProceed(p, req[p], ActiveAfterFreeze)
        /\ overtaken' = IF ~Stale(req[p]) /\ \E c \in Callers : pc[c] = "refresh_idle"
                        THEN overtaken \cup {req[p]} ELSE overtaken
    BY <1>0, <1>5 DEF PutAdmitted, PutReturns, SleepAt
  <2> QED BY <1>0, <1>1, <2>1, <2>2 DEF Stale
<1>6. ~PutLogged(p) /\ ~PutFull(p) /\ ~PutLogFails(p)
  BY <1>0 DEF PutLogged, PutFull, PutLogFails, PutReturns, SleepAt
<1> QED BY <1>2, <1>3, <1>4, <1>5, <1>6 DEF PutAction, PutStep

\* Who is logging, resetting or refreshing has the lock or refreshing_, put.
LEMMA LockPut ==
  ASSUME Inv, NEW p \in Producers, PutAction(p)
  PROVE  LockOK'
<1>1. \A q \in Producers \ {p} : pc'[q] # "append"
  BY PutFrame, OnlyLogger, ThreadFacts
<1>2. pc'[p] = "append" => /\ mutex' = p /\ ~error' /\ ~Stale(req[p])' /\ (req[p] \in active)'
  <2> HAVE pc'[p] = "append"
  <2>1. mutex' = p /\ ~error' /\ ~CoveredBy(req'[p], versions)
        /\ versions' = versions /\ req'[p] \in active'
    BY PutProceeds DEF PutDocument
  <2> QED BY <2>1 DEF Stale, CoveredBy
<1>3. \A c \in Callers : pc'[c] = pc[c] /\ pc[c] # "reset" /\ (InRefresh(c)' <=> InRefresh(c))
  BY PutFrame, OnlyLogger, ThreadFacts DEF InRefresh
<1>4. refreshing' = refreshing
  BY PutFrame
<1> QED BY <1>1, <1>2, <1>3, <1>4 DEF Inv, WriterInv, LockOK

\* A step of refresh ends in one of these states.
LEMMA RefreshOutcome ==
  ASSUME Inv, NEW c \in Callers, RefreshAction(c)
  PROVE  \/ /\ pc'[c] = "reset" /\ ~error /\ ~busy /\ frozen' = <<>>
            /\ mutex' = c /\ refreshing' /\ (InRefresh(c) \/ ~refreshing)
            /\ UNCHANGED <<disk, error, promised>>
         \/ /\ pc'[c] \in {"refresh_capacity", "refresh_idle"} /\ ~error
            /\ refreshing' /\ (InRefresh(c) \/ ~refreshing)
            /\ UNCHANGED <<disk, error, promised>>
         \/ ~InRefresh(c)' /\ InRefresh(c)
         \/ ~InRefresh(c)' /\ refreshing' = refreshing /\ UNCHANGED <<disk, error, promised>>
<1>0. pc \in [Threads -> ProducerStates \cup CallerStates \cup ReaderStates \cup WorkerStates]
      /\ c \in Threads
  BY ThreadFacts DEF Inv, TypeOK, ThreadType
<1>r. pc[c] \in {"refresh_capacity", "refresh_idle"} => refreshing
  BY DEF Inv, WriterInv, LockOK, InRefresh
<1>1. ASSUME NEW o, RefreshEnter(c, o)
      PROVE  \/ /\ pc'[c] = "reset" /\ ~error /\ ~busy /\ frozen' = <<>>
                /\ mutex' = c /\ refreshing' /\ ~refreshing
                /\ UNCHANGED <<disk, error, promised>>
             \/ /\ pc'[c] \in {"refresh_capacity", "refresh_idle"} /\ ~error
                /\ refreshing' /\ ~refreshing
                /\ UNCHANGED <<disk, error, promised>>
             \/ ~InRefresh(c)' /\ refreshing' = refreshing /\ UNCHANGED <<disk, error, promised>>
  BY <1>0, <1>1 DEF RefreshEnter, AwaitIdle, SleepAt, InRefresh
<1>2. ASSUME RefreshFails(c) PROVE ~InRefresh(c)'
  BY <1>0, <1>2 DEF RefreshFails, AfterRefresh, InRefresh
<1>3. CASE RefreshCapacity(c)
  <2>1. InRefresh(c) /\ refreshing
    BY <1>r, <1>3 DEF RefreshCapacity, InRefresh
  <2>2. \/ RefreshFails(c)
        \/ /\ ~error /\ UNCHANGED <<refreshing, disk, error, promised>>
           /\ \/ pc'[c] \in {"refresh_capacity", "refresh_idle"}
              \/ pc'[c] = "reset" /\ mutex' = c /\ ~busy /\ frozen' = <<>>
    BY <1>0, <1>3 DEF RefreshCapacity, AwaitIdle, SleepAt
  <2>3. refreshing' = refreshing => refreshing'
    BY <2>1
  <2> QED BY <1>2, <2>1, <2>2, <2>3
<1>4. CASE RefreshIdle(c)
  <2>1. InRefresh(c) /\ refreshing
    BY <1>r, <1>4 DEF RefreshIdle, InRefresh
  <2>2. \/ RefreshFails(c)
        \/ /\ ~error /\ UNCHANGED <<refreshing, disk, error, promised>>
           /\ \/ pc'[c] = "refresh_idle"
              \/ pc'[c] = "reset" /\ mutex' = c /\ ~busy /\ frozen' = <<>>
    BY <1>0, <1>4 DEF RefreshIdle, AwaitIdle, buffer
  <2>3. refreshing' = refreshing => refreshing'
    BY <2>1
  <2> QED BY <1>2, <2>1, <2>2, <2>3
<1>5. CASE RefreshReset(c)
  BY <1>0, <1>5 DEF RefreshReset, AfterRefresh, InRefresh
<1>6. CASE RefreshResetFails(c)
  BY <1>2, <1>6 DEF RefreshResetFails, InRefresh
<1>7. CASE CloseStop(c)
  BY <1>0, <1>7 DEF CloseStop, InRefresh, history
<1> QED BY <1>1, <1>3, <1>4, <1>5, <1>6, <1>7 DEF RefreshAction, RefreshCall, RefreshReenter

\* Who is logging, resetting or refreshing has the lock or refreshing_, refresh.
LEMMA LockRefresh ==
  ASSUME Inv, NEW c \in Callers, RefreshAction(c)
  PROVE  LockOK'
<1>1. \A q \in Producers : pc'[q] # "append"
  BY RefreshFrame, OnlyResetter, ThreadFacts
<1>2. \A d \in Callers \ {c} : pc'[d] = pc[d] /\ pc[d] # "reset" /\ (InRefresh(d)' <=> InRefresh(d))
  BY RefreshFrame, OnlyResetter, ThreadFacts DEF InRefresh
<1>3. busy' = busy
  BY RefreshFrame DEF pubState
<1>4. /\ \A d \in Callers : InRefresh(d) => refreshing
      /\ \A d, e \in Callers : InRefresh(d) /\ InRefresh(e) => d = e
  BY DEF Inv, WriterInv, LockOK
<1>5. pc'[c] = "reset" => mutex' = c /\ ~error' /\ ~busy' /\ frozen' = <<>>
  BY <1>3, RefreshOutcome DEF InRefresh
<1>6. \A d \in Callers : InRefresh(d)' => refreshing'
  BY <1>2, <1>4, RefreshOutcome DEF InRefresh
<1>7. \A d \in Callers \ {c} : ~(InRefresh(d)' /\ InRefresh(c)')
  BY <1>2, <1>4, RefreshOutcome DEF InRefresh
<1>8. \A d, e \in Callers : InRefresh(d)' /\ InRefresh(e)' => d = e
  BY <1>2, <1>4, <1>7
<1> QED BY <1>1, <1>2, <1>5, <1>6, <1>8 DEF LockOK

\* Who is logging, resetting or refreshing has the lock or refreshing_: steps
\* that need the lock, or leave alone what is locked.
LEMMA LockOthers ==
  ASSUME Inv, UNCHANGED <<refreshing, req>>,
         \/ /\ mutex \notin Producers \cup Callers
         \/ UNCHANGED <<mutex, error, busy, versions, active, frozen>>,
         \A q \in Producers : pc'[q] = pc[q],
         \A c \in Callers : \/ pc'[c] = pc[c]
                            \/ pc[c] \in {"merge_loop", "publishing"} /\
                               pc'[c] \in {"publishing", "done", "failed", "merge", "merge_loop", "idle"}
  PROVE  LockOK'
<1>1. \A c \in Callers : /\ pc'[c] = "reset" => pc[c] = "reset"
                         /\ InRefresh(c)' => InRefresh(c)
  BY DEF InRefresh
<1>2. CASE mutex \notin Producers \cup Callers
  BY <1>1, <1>2, NobodyElse DEF Inv, WriterInv, LockOK
<1>3. CASE UNCHANGED <<mutex, error, busy, versions, active, frozen>>
  <2>1. \A q \in Producers : pc'[q] = "append" =>
          mutex' = q /\ ~error' /\ ~Stale(req[q])' /\ (req[q] \in active)'
    BY <1>3 DEF Inv, WriterInv, LockOK, Stale, CoveredBy
  <2>2. \A c \in Callers : pc'[c] = "reset" => mutex' = c /\ ~error' /\ ~busy' /\ frozen' = <<>>
    BY <1>1, <1>3 DEF Inv, WriterInv, LockOK
  <2> QED BY <1>1, <2>1, <2>2 DEF Inv, WriterInv, LockOK
<1> QED BY <1>2, <1>3

-----------------------------------------------------------------------------
(* Files and generations                                                   *)

\* What is published depends only on the directory.
LEMMA FilesSame ==
  ASSUME UNCHANGED <<segs, manifests, current>>
  PROVE  /\ FileIds' = FileIds /\ Published' = Published /\ (CurrentOpens' <=> CurrentOpens)
         /\ ManifestSegments(current)' = ManifestSegments(current)
         /\ \A g : ManifestSegments(g)' = ManifestSegments(g)
         /\ \A ids : SegmentDocs(ids)' = SegmentDocs(ids)
BY DEF FileIds, Published, CurrentOpens, ManifestSegments, SegmentDocs

\* A step that leaves the publications and their owners alone.
LEMMA PublicationFrame ==
  ASSUME Inv, UNCHANGED pubState, pc'[Worker] = pc[Worker],
         \A t \in Callers : pc[t] = "publishing" => pc'[t] = "publishing"
  PROVE  GenerationOK' /\ JobOK' /\ FlushOK' /\ Published' = Published
<1>0. UNCHANGED <<segs, manifests, current, up, snapshot, job, manifest, nextSeg, busy>>
  BY DEF pubState
<1>1. /\ FileIds' = FileIds /\ Published' = Published /\ (CurrentOpens' <=> CurrentOpens)
      /\ ManifestSegments(current)' = ManifestSegments(current)
      /\ ManifestSegments(job.next.generation)' = ManifestSegments(job.next.generation)
      /\ SegmentDocs(job.next.segments \ {job.id})' = SegmentDocs(job.next.segments \ {job.id})
      /\ SegmentDocs({job.id})' = SegmentDocs({job.id})
  BY <1>0 DEF FileIds, Published, CurrentOpens, ManifestSegments, SegmentDocs
<1>2. GenerationOK'
  BY <1>0, <1>1 DEF Inv, WriterInv, GenerationOK
<1>3. JobOK'
  <2>1. job.stage # "free" => pc'[job.owner] = "publishing"
    BY DEF Inv, WriterInv, JobOK, TypeOK, WorkerType
  <2>2. (\E x \in manifests : x.generation = job.next.generation)'
          <=> \E x \in manifests : x.generation = job.next.generation
    BY <1>0
  <2> QED BY <1>0, <1>1, <2>1, <2>2 DEF Inv, WriterInv, JobOK
<1>4. FlushOK'
  BY <1>0, <1>1 DEF Inv, WriterInv, FlushOK, Flushed
<1> QED BY <1>1, <1>2, <1>3, <1>4

\* The segments and the manifests a generation consists of: nothing published
\* changes when a file is added that CURRENT does not name, or removed.
LEMMA SegmentAdded ==
  ASSUME Inv, NEW f \in [id : Nat, docs : SUBSET Mutation],
         segs' = WithSegment(f), UNCHANGED <<manifests, current>>,
         f.id \notin ManifestSegments(current)
  PROVE  /\ FileIds' = FileIds \cup {f.id} /\ (CurrentOpens => CurrentOpens')
         /\ Published' = Published
         /\ \A g : ManifestSegments(g)' = ManifestSegments(g)
         /\ ManifestSegments(current)' = ManifestSegments(current)
         /\ \A ids : f.id \notin ids => SegmentDocs(ids)' = SegmentDocs(ids)
         /\ f.docs \subseteq SegmentDocs({f.id})'
<1>1. FileIds' = FileIds \cup {f.id}
  BY DEF FileIds, WithSegment
<1>2. \A ids : f.id \notin ids => SegmentDocs(ids)' = SegmentDocs(ids)
  BY DEF SegmentDocs, WithSegment
<1>3. /\ \A g : ManifestSegments(g)' = ManifestSegments(g)
      /\ ManifestSegments(current)' = ManifestSegments(current)
  BY DEF ManifestSegments
<1>4. Published' = Published
  <2>1. Published' = UNION {h.docs : h \in {g \in segs' : g.id \in ManifestSegments(current)}}
    BY <1>3 DEF Published, SegmentDocs
  <2>2. {g \in segs' : g.id \in ManifestSegments(current)}
          = {g \in segs : g.id \in ManifestSegments(current)}
    BY DEF WithSegment
  <2> QED BY <2>1, <2>2 DEF Published, SegmentDocs
<1>5. f.docs \subseteq SegmentDocs({f.id})'
  BY DEF SegmentDocs, WithSegment
<1>6. CurrentOpens => CurrentOpens'
  BY <1>1, <1>3 DEF CurrentOpens
<1> QED BY <1>1, <1>2, <1>3, <1>4, <1>5, <1>6

\* A manifest of a generation other than CURRENT's is written.
LEMMA ManifestAdded ==
  ASSUME Inv, NEW x \in Generation, manifests' = WithManifest(x), UNCHANGED <<segs, current>>,
         x.generation # current
  PROVE  /\ FileIds' = FileIds /\ (CurrentOpens => CurrentOpens') /\ Published' = Published
         /\ ManifestSegments(current)' = ManifestSegments(current)
         /\ ManifestSegments(x.generation)' = x.segments
         /\ (\E y \in manifests : y.generation = x.generation)'
         /\ \A ids : SegmentDocs(ids)' = SegmentDocs(ids)
<1>1. FileIds' = FileIds /\ \A ids : SegmentDocs(ids)' = SegmentDocs(ids)
  BY DEF FileIds, SegmentDocs
<1>2. ManifestSegments(current)' = ManifestSegments(current)
  <2>1. {y \in manifests' : y.generation = current} = {y \in manifests : y.generation = current}
    BY DEF WithManifest
  <2> QED BY <2>1 DEF ManifestSegments
<1>3. ManifestSegments(x.generation)' = x.segments
  <2>1. {y \in manifests' : y.generation = x.generation} = {x}
    BY DEF WithManifest
  <2> QED BY <2>1 DEF ManifestSegments
<1>4. \E y \in manifests' : y.generation = x.generation
  BY DEF WithManifest
<1>5. Published' = Published
  BY <1>2 DEF Published, SegmentDocs
<1>6. CurrentOpens => CurrentOpens'
  <2>1. \A y \in manifests : y.generation = current => y \in manifests'
    BY DEF WithManifest
  <2> QED BY <1>1, <1>2, <2>1 DEF CurrentOpens
<1> QED BY <1>1, <1>2, <1>3, <1>4, <1>5, <1>6

\* Files and manifests that CURRENT's generation does not need are removed.
LEMMA FilesRemoved ==
  ASSUME Inv, UNCHANGED current, segs' \subseteq segs, manifests' \subseteq manifests,
         \A f \in segs : f.id \in ManifestSegments(current) => f \in segs',
         \A x \in manifests : x.generation = current => x \in manifests'
  PROVE  /\ (CurrentOpens => CurrentOpens') /\ Published' = Published
         /\ ManifestSegments(current)' = ManifestSegments(current)
<1>1. ManifestSegments(current)' = ManifestSegments(current)
  <2>1. {y \in manifests' : y.generation = current} = {y \in manifests : y.generation = current}
    OBVIOUS
  <2> QED BY <2>1 DEF ManifestSegments
<1>2. {g \in segs' : g.id \in ManifestSegments(current)}
          = {g \in segs : g.id \in ManifestSegments(current)}
  OBVIOUS
<1>3. Published' = Published
  BY <1>1, <1>2 DEF Published, SegmentDocs
<1>4. ManifestSegments(current) \subseteq FileIds => ManifestSegments(current) \subseteq FileIds'
  BY DEF FileIds
<1>5. CurrentOpens => CurrentOpens'
  BY <1>1, <1>4 DEF CurrentOpens
<1> QED BY <1>1, <1>3, <1>5

-----------------------------------------------------------------------------
(* Publications: the worker and the start of a merge                       *)

\* A finite list of segments and CURRENT's list are the same: the segments a
\* merge opens include the ones it chose.
LEMMA OpenedChosen ==
  ASSUME Inv, up, manifest.generation = current, NEW chosen \in Selections
  PROVE  chosen \subseteq Opened(chosen) /\ Opened(chosen) \subseteq ManifestSegments(current)
<1>1. manifest.segments = ManifestSegments(current)
  BY DEF Inv, WriterInv, GenerationOK
<1>2. chosen \subseteq manifest.segments
  BY DEF Selections
<1> QED BY <1>1, <1>2 DEF Opened

\* The generation a flush prepares adds the new index to the published one.
LEMMA FlushJob ==
  ASSUME Inv, WorkerFlush
  PROVE  GenerationOK' /\ JobOK' /\ FlushOK' /\ Published' = Published
<1>0. /\ up /\ job.stage = "free" /\ pc[Worker] = "flush"
      /\ nextSeg' = nextSeg + 1 /\ UNCHANGED <<segs, manifests, current, up, snapshot, manifest, busy>>
  BY DEF WorkerFlush, Runs, disk, flags
<1>1. /\ FileIds' = FileIds /\ Published' = Published /\ (CurrentOpens' <=> CurrentOpens)
      /\ ManifestSegments(current)' = ManifestSegments(current)
  BY <1>0, FilesSame
<1>2. nextSeg \in Nat /\ manifest.segments \in SUBSET Nat /\ manifest.generation \in Nat
      /\ ManifestSegments(current) \in SUBSET Nat
  BY FileTypes DEF Inv, TypeOK, WorkerType, Generation
<1>3. GenerationOK
  BY DEF Inv, WriterInv
<1>4. GenerationOK'
  BY <1>0, <1>1, <1>2, <1>3 DEF GenerationOK
<1>5. /\ job'.stage = "segment" /\ job'.owner = Worker /\ job'.merge = FALSE
      /\ job'.id = nextSeg /\ job'.docs = snapshot
      /\ job'.next.generation = manifest.generation + 1
      /\ job'.next.segments = manifest.segments \cup {nextSeg}
  BY DEF WorkerFlush, NoJob, FlushedSegments
<1>6. pc'[Worker] = "publishing"
  BY ThreadFacts DEF WorkerFlush, Inv, TypeOK, ThreadType
<1>7. JobOK'
  <2>1. IsFiniteSet(job'.next.segments)
    BY <1>0, <1>3, <1>5, FS_AddElement DEF GenerationOK
  <2>2. \A s \in job'.next.segments : s < nextSeg'
    BY <1>0, <1>2, <1>3, <1>5 DEF GenerationOK
  <2>3. nextSeg \notin manifest.segments \cup ManifestSegments(current)
    BY <1>0, <1>2, <1>3 DEF GenerationOK
  <2>4. manifest.generation = current =>
          AllCovered(Published, SegmentDocs(job.next.segments \ {job.id})' \cup job'.docs)
    <3> HAVE manifest.generation = current
    <3>1. job'.next.segments \ {job'.id} = ManifestSegments(current)
      BY <1>0, <1>3, <1>5, <2>3 DEF GenerationOK
    <3>2. SegmentDocs(job.next.segments \ {job.id})' = Published
      BY <1>0, <3>1 DEF SegmentDocs, Published
    <3>3. Published \in SUBSET Mutation
      BY FileTypes DEF Published, Inv
    <3> QED BY <3>2, <3>3, CoverReflexive
  <2> QED BY <1>0, <1>1, <1>5, <1>6, <2>1, <2>2, <2>3, <2>4 DEF JobOK
<1>8. FlushOK'
  BY <1>0, <1>5, <1>6 DEF Inv, WriterInv, FlushOK, Flushed
<1> QED BY <1>1, <1>4, <1>7, <1>8

\* The generation a merge prepares covers the published one.
LEMMA CompactJob ==
  ASSUME Inv, NEW t \in Callers \cup {Worker}, Compact(t)
  PROVE  GenerationOK' /\ JobOK' /\ FlushOK' /\ Published' = Published
<1>0. /\ up /\ job.stage = "free" /\ pc[t] = IF t = Worker THEN "merge" ELSE "merge_loop"
      /\ nextSeg' = nextSeg + 1 /\ UNCHANGED <<segs, manifests, current, up, snapshot, manifest, busy>>
  BY DEF Compact, Runs, disk, flags
<1>1. /\ FileIds' = FileIds /\ Published' = Published /\ (CurrentOpens' <=> CurrentOpens)
      /\ ManifestSegments(current)' = ManifestSegments(current)
  BY <1>0, FilesSame
<1>2. nextSeg \in Nat /\ manifest.segments \in SUBSET Nat /\ manifest.generation \in Nat
      /\ ManifestSegments(current) \in SUBSET Nat
  BY FileTypes DEF Inv, TypeOK, WorkerType, Generation
<1>3. GenerationOK
  BY DEF Inv, WriterInv
<1>4. GenerationOK'
  BY <1>0, <1>1, <1>2, <1>3 DEF GenerationOK
<1>5. PICK chosen \in Selections :
        job' = [stage |-> "segment", owner |-> t, merge |-> TRUE,
                id |-> nextSeg, docs |-> Latest(SegmentDocs(Opened(chosen))),
                next |-> [generation |-> manifest.generation + 1,
                          segments |-> CompactedSegments(chosen)],
                obsolete |-> manifest]
  BY DEF Compact
<1>6. /\ pc'[t] = "publishing" /\ t \in Threads
      /\ \A u \in Threads \ {t} : pc'[u] = pc[u]
  BY ThreadFacts DEF Compact, Inv, TypeOK, ThreadType
<1>7. JobOK'
  <2>0. /\ job'.stage = "segment" /\ job'.owner = t /\ job'.merge = TRUE
        /\ job'.id = nextSeg /\ job'.docs = Latest(SegmentDocs(Opened(chosen)))
        /\ job'.next.generation = manifest.generation + 1
        /\ job'.next.segments = (manifest.segments \ chosen) \cup {nextSeg}
        /\ job'.obsolete = manifest
    BY <1>5 DEF CompactedSegments
  <2>1. IsFiniteSet(job'.next.segments)
    <3>1. IsFiniteSet(manifest.segments \ chosen)
      BY <1>0, <1>3, FS_Subset DEF GenerationOK
    <3> QED BY <3>1, <2>0, FS_AddElement
  <2>2. \A s \in job'.next.segments : s < nextSeg'
    BY <1>0, <1>2, <1>3, <2>0 DEF GenerationOK
  <2>3. nextSeg \notin manifest.segments \cup ManifestSegments(current)
    BY <1>0, <1>2, <1>3 DEF GenerationOK
  <2>4. manifest.generation = current =>
          AllCovered(Published, SegmentDocs(job.next.segments \ {job.id})' \cup job'.docs)
    <3> HAVE manifest.generation = current
    <3> DEFINE Rest == SegmentDocs(ManifestSegments(current) \ chosen)
               Merged == SegmentDocs(Opened(chosen))
    <3>1. job'.next.segments \ {job'.id} = ManifestSegments(current) \ chosen
      BY <1>0, <1>3, <2>0, <2>3 DEF GenerationOK
    <3>2. SegmentDocs(job.next.segments \ {job.id})' = Rest
      BY <1>0, <3>1 DEF SegmentDocs
    <3>3. Published \subseteq Rest \cup Merged
      BY <1>0, OpenedChosen DEF SegmentDocs, Published
    <3>4. Rest \in SUBSET Mutation /\ Merged \in SUBSET Mutation /\ Published \in SUBSET Mutation
      BY FileTypes DEF Inv, Published
    <3> HIDE DEF Rest, Merged
    <3>5. AllCovered(Published, Rest \cup Merged)
      BY <3>3, <3>4, CoverReflexive
    <3>6. AllCovered(Rest, Rest \cup Latest(Merged)) /\ AllCovered(Merged, Rest \cup Latest(Merged))
      <4>1. AllCovered(Rest, Rest \cup Latest(Merged))
        BY <3>4, CoverReflexive
      <4>2. AllCovered(Merged, Latest(Merged))
        BY <3>4, LatestCovers
      <4> QED BY <4>1, <4>2, CoverMonotone
    <3>7. Latest(Merged) \in SUBSET Mutation
      BY <3>4, LatestCovers
    <3>8. AllCovered(Rest \cup Merged, Rest \cup Latest(Merged))
      BY <3>6, CoverUnion
    <3>9. AllCovered(Published, Rest \cup Latest(Merged))
      BY <3>4, <3>5, <3>7, <3>8, CoverTransitive
    <3> QED BY <3>2, <3>9, <2>0 DEF Merged
  <2> QED BY <1>0, <1>1, <1>6, <2>0, <2>1, <2>2, <2>3, <2>4 DEF JobOK
<1>8. FlushOK'
  <2>1. Flushed' => Flushed
    BY <1>0, <1>5, <1>6, ThreadFacts DEF Flushed
  <2>2. pc'[Worker] \in {"wait", "exited"} => pc[Worker] \in {"wait", "exited"}
    BY <1>6, ThreadFacts
  <2> QED BY <1>0, <1>1, <2>1, <2>2 DEF Inv, WriterInv, FlushOK
<1> QED BY <1>1, <1>4, <1>7, <1>8

\* The other steps of the worker loop.
LEMMA WorkerJob ==
  ASSUME Inv, WorkerAction
  PROVE  GenerationOK' /\ JobOK' /\ FlushOK' /\ Published' = Published
<1>t. /\ pc \in [Threads -> ProducerStates \cup CallerStates \cup ReaderStates \cup WorkerStates]
      /\ Worker \in Threads /\ \A c \in Callers : c \in Threads /\ c # Worker
      /\ job.owner \in Callers \cup {Worker}
  BY ThreadFacts DEF Inv, TypeOK, ThreadType, WorkerType
<1>1. CASE WorkerTake \/ WorkerDone
  <2>0. UNCHANGED <<segs, manifests, current, up, job, manifest, nextSeg>>
    BY <1>1 DEF WorkerTake, WorkerDone, disk
  <2>1. pc[Worker] # "publishing" /\ \A c \in Callers : pc'[c] = pc[c]
    BY <1>1, <1>t DEF WorkerTake, WorkerDone, SleepAt
  <2>2. pc'[Worker] \notin {"merge", "done"}
    BY <1>1, <1>t DEF WorkerTake, WorkerDone, SleepAt
  <2>3. job.stage # "free" => job.owner \in Callers /\ job.merge
    BY <1>t, <2>1 DEF Inv, WriterInv, JobOK
  <2>4. /\ FileIds' = FileIds /\ Published' = Published /\ (CurrentOpens' <=> CurrentOpens)
        /\ ManifestSegments(current)' = ManifestSegments(current)
        /\ ManifestSegments(job.next.generation)' = ManifestSegments(job.next.generation)
        /\ SegmentDocs(job.next.segments \ {job.id})' = SegmentDocs(job.next.segments \ {job.id})
        /\ SegmentDocs({job.id})' = SegmentDocs({job.id})
    BY <2>0 DEF FileIds, Published, CurrentOpens, ManifestSegments, SegmentDocs
  <2>5. GenerationOK'
    BY <2>0, <2>4 DEF Inv, WriterInv, GenerationOK
  <2>6. JobOK'
    <3>1. job.stage # "free" => pc'[job.owner] = "publishing"
      BY <2>1, <2>3 DEF Inv, WriterInv, JobOK
    <3>2. (\E x \in manifests : x.generation = job.next.generation)'
            <=> \E x \in manifests : x.generation = job.next.generation
      BY <2>0
    <3> QED BY <2>0, <2>3, <2>4, <3>1, <3>2 DEF Inv, WriterInv, JobOK
  <2>7. FlushOK'
    <3>1. ~Flushed'
      BY <1>t, <2>0, <2>2, <2>3 DEF Flushed
    <3>2. ~busy' => snapshot' = {}
      BY <1>1 DEF WorkerTake, WorkerDone, Inv, WriterInv, FlushOK
    <3>3. pc'[Worker] \in {"wait", "exited"} => ~busy'
      BY <1>1, <1>t DEF WorkerTake, WorkerDone, SleepAt, Inv, WriterInv, FlushOK
    <3> QED BY <3>1, <3>2, <3>3 DEF FlushOK
  <2> QED BY <2>4, <2>5, <2>6, <2>7
<1>2. ASSUME NEW t \in Callers \cup {Worker}, CompactNothing(t)
      PROVE  GenerationOK' /\ JobOK' /\ FlushOK' /\ Published' = Published
  <2>1. /\ UNCHANGED pubState /\ pc[t] = IF t = Worker THEN "merge" ELSE "merge_loop"
        /\ pc'[t] = IF t = Worker THEN "done" ELSE "idle"
        /\ \A u \in Threads \ {t} : pc'[u] = pc[u]
    BY <1>2, <1>t DEF CompactNothing, disk, flags, worker, pubState
  <2>2. CASE t # Worker
    BY <1>t, <2>1, <2>2, PublicationFrame
  <2>3. CASE t = Worker
    <3>0. UNCHANGED <<segs, manifests, current, up, snapshot, job, manifest, nextSeg, busy>>
      BY <2>1 DEF pubState
    <3>1. job.stage = "free"
      BY <1>2, <2>3 DEF CompactNothing
    <3>2. /\ Published' = Published /\ (CurrentOpens' <=> CurrentOpens)
          /\ ManifestSegments(current)' = ManifestSegments(current)
      BY <3>0, FilesSame
    <3>3. GenerationOK' /\ JobOK'
      BY <3>0, <3>1, <3>2 DEF Inv, WriterInv, GenerationOK, JobOK
    <3>4. FlushOK'
      BY <2>1, <2>3, <3>0, <3>1, <3>2 DEF Inv, WriterInv, FlushOK, Flushed
    <3> QED BY <3>2, <3>3, <3>4
  <2> QED BY <2>2, <2>3
<1> QED BY <1>1, <1>2, FlushJob, CompactJob DEF WorkerAction, CompactAction

-----------------------------------------------------------------------------
(* Publications: the steps of a publication                                *)

\* The facts about a publication in progress that its steps use.
LEMMA JobFacts ==
  ASSUME Inv, job.stage # "free", up
  PROVE  /\ job.id \in Nat /\ job.docs \in SUBSET Mutation /\ job.next \in Generation
         /\ job.next.generation \in Nat /\ job.next.segments \in SUBSET Nat
         /\ manifest.generation \in Nat /\ current \in Nat /\ manifest.generation <= current
         /\ [id |-> job.id, docs |-> job.docs] \in [id : Nat, docs : SUBSET Mutation]
         /\ job.owner \in Callers \cup {Worker}
         /\ CurrentOpens /\ IsFiniteSet(ManifestSegments(current))
         /\ Published \in SUBSET Mutation /\ snapshot \in SUBSET Mutation
BY FileTypes DEF Inv, TypeOK, DiskType, WorkerType, Generation, WriterInv, GenerationOK, Published

\* When CURRENT is replaced, what was published stays covered, and the new
\* segment is published.
LEMMA CurrentReplaced ==
  ASSUME Inv, up, job.stage = "current", current' = job.next.generation,
         UNCHANGED <<segs, manifests>>
  PROVE  /\ AllCovered(Published, Published') /\ job.docs \subseteq Published'
         /\ CurrentOpens' /\ ManifestSegments(current)' = job.next.segments
         /\ current' = current + 1
<1>1. /\ manifest.generation = current
      /\ job.next.generation = manifest.generation + 1
      /\ \E x \in manifests : x.generation = job.next.generation
      /\ ManifestSegments(job.next.generation) = job.next.segments
      /\ job.next.segments \subseteq FileIds
      /\ job.id \in job.next.segments
      /\ job.docs \subseteq SegmentDocs({job.id})
      /\ AllCovered(Published, SegmentDocs(job.next.segments \ {job.id}) \cup job.docs)
  BY DEF Inv, WriterInv, JobOK
<1>2. ManifestSegments(current)' = job.next.segments
  BY <1>1 DEF ManifestSegments
<1>3. Published' = SegmentDocs(job.next.segments)
  BY <1>2 DEF Published, SegmentDocs
<1>4. job.docs \subseteq SegmentDocs(job.next.segments)
  BY <1>1 DEF SegmentDocs
<1>5. SegmentDocs(job.next.segments \ {job.id}) \subseteq SegmentDocs(job.next.segments)
  BY DEF SegmentDocs
<1>6. AllCovered(Published, Published')
  <2> DEFINE N == SegmentDocs(job.next.segments \ {job.id}) \cup job.docs
  <2>1. N \subseteq Published' /\ AllCovered(Published, N)
    BY <1>1, <1>3, <1>4, <1>5
  <2> HIDE DEF N
  <2> QED BY <2>1, CoverMonotone
<1>7. CurrentOpens'
  BY <1>1, <1>2 DEF CurrentOpens, FileIds
<1> QED BY <1>1, <1>2, <1>3, <1>4, <1>6, <1>7

\* What is published are mutations, after a step too.
LEMMA PublishedTypeNext ==
  ASSUME TypeOK'
  PROVE  Published' \in SUBSET Mutation
<1>1. segs' \subseteq [id : Nat, docs : SUBSET Mutation]
  BY DEF TypeOK, DiskType
<1> QED BY <1>1 DEF Published, SegmentDocs

\* The directory after each step of a publication: it stays readable, and what
\* is published only grows newer.
LEMMA JobFiles ==
  ASSUME Inv, JobStep \/ JobFault
  PROVE  /\ CurrentOpens' /\ AllCovered(Published, Published') /\ Published' \in SUBSET Mutation
         /\ \/ current' = current /\ ManifestSegments(current)' = ManifestSegments(current)
            \/ /\ job.stage = "current" /\ current' = job.next.generation
               /\ UNCHANGED <<segs, manifests>>
               /\ ManifestSegments(current)' = job.next.segments
               /\ job.docs \subseteq Published'
<1>0. up /\ job.stage # "free"
  BY JobFrame
<1>1. CurrentOpens /\ Published \in SUBSET Mutation
  BY <1>0, JobFacts
<1>p. Published' \in SUBSET Mutation
  BY TypeJob, PublishedTypeNext
<1>s. ASSUME CurrentOpens', Published' = Published, current' = current,
             ManifestSegments(current)' = ManifestSegments(current)
      PROVE  /\ CurrentOpens' /\ AllCovered(Published, Published')
             /\ \/ current' = current /\ ManifestSegments(current)' = ManifestSegments(current)
                \/ /\ job.stage = "current" /\ current' = job.next.generation
                   /\ UNCHANGED <<segs, manifests>>
                   /\ ManifestSegments(current)' = job.next.segments
                   /\ job.docs \subseteq Published'
  BY <1>1, <1>s, CoverReflexive
<1>2. CASE UNCHANGED <<segs, manifests, current>>
  BY <1>1, <1>2, <1>s, <1>p, FilesSame
<1>3. CASE /\ job.stage = "segment" /\ segs' = WithSegment([id |-> job.id, docs |-> job.docs])
           /\ UNCHANGED <<manifests, current>>
  <2>1. job.id \notin ManifestSegments(current)
    BY <1>3 DEF Inv, WriterInv, JobOK
  <2> QED BY <1>0, <1>1, <1>3, <1>s, <1>p, <2>1, SegmentAdded, JobFacts
<1>4. CASE /\ job.stage = "manifest" /\ Publishable(job.next)
           /\ manifests' = WithManifest(job.next) /\ UNCHANGED <<segs, current>>
  <2>1. job.next.generation # current
    BY <1>0, <1>4, JobFacts DEF Publishable
  <2> QED BY <1>0, <1>1, <1>4, <1>s, <1>p, <2>1, ManifestAdded, JobFacts
<1>5. CASE /\ job.stage = "current" /\ current' = job.next.generation /\ UNCHANGED <<segs, manifests>>
  BY <1>0, <1>5, <1>p, CurrentReplaced
<1>6. CASE /\ job.stage = "reclaim" /\ UNCHANGED <<manifests, current>>
           /\ \E f \in Obsolete : segs' = segs \ {f}
  <2>1. ManifestSegments(current) = job.next.segments
    BY <1>6 DEF Inv, WriterInv, JobOK
  <2>2. \A f \in segs : f.id \in ManifestSegments(current) => f \in segs'
    BY <1>6, <2>1 DEF Obsolete
  <2>3. segs' \subseteq segs /\ manifests' = manifests /\ current' = current
    BY <1>6
  <2> QED BY <1>1, <2>2, <2>3, <1>s, <1>p, FilesRemoved
<1>7. CASE /\ job.stage = "reclaim" /\ UNCHANGED <<segs, current>>
           /\ manifests' = {x \in manifests : x.generation # job.obsolete.generation}
  <2>1. job.obsolete.generation < current /\ current \in Nat
    BY <1>7 DEF Inv, WriterInv, JobOK, TypeOK, DiskType
  <2>2. \A x \in manifests : x.generation = current => x \in manifests'
    BY <1>7, <2>1
  <2>3. segs' = segs /\ manifests' \subseteq manifests /\ current' = current
    BY <1>7
  <2> QED BY <1>1, <2>2, <2>3, <1>s, <1>p, FilesRemoved
<1>8. CASE JobStep
  BY <1>8, <1>2, <1>3, <1>4, <1>5, <1>6, <1>7 DEF JobStep, JobSegment, JobManifest, JobRefused,
     JobCurrent, JobInstall, JobReclaim, JobReclaimed, disk
<1>9. CASE JobFault
  BY <1>9, <1>2, <1>3, <1>4, <1>5 DEF JobFault
<1> QED BY <1>8, <1>9

\* The generations and the publication after each of its steps.
LEMMA JobJob ==
  ASSUME Inv, JobStep \/ JobFault
  PROVE  GenerationOK' /\ JobOK'
<1>0. up /\ job.stage # "free" /\ pc[job.owner] = "publishing" /\ up' = up /\ nextSeg' = nextSeg
      /\ snapshot' = snapshot
  BY JobFrame
<1>f. /\ job.id \in Nat /\ job.docs \in SUBSET Mutation /\ job.next \in Generation
      /\ job.next.generation \in Nat /\ job.next.segments \in SUBSET Nat
      /\ manifest.generation \in Nat /\ current \in Nat /\ manifest.generation <= current
      /\ IsFiniteSet(ManifestSegments(current)) /\ IsFiniteSet(manifest.segments)
      /\ \A s \in manifest.segments \cup ManifestSegments(current) : s < nextSeg
      /\ manifest.generation = current => manifest.segments = ManifestSegments(current)
  BY <1>0, JobFacts DEF Inv, WriterInv, GenerationOK
<1>j. JobOK
  BY DEF Inv, WriterInv
<1>k. /\ ~job.merge => job.owner = Worker /\ job.docs = snapshot
      /\ IsFiniteSet(job.next.segments)
      /\ job.id \in job.next.segments
      /\ \A s \in job.next.segments : s < nextSeg
  BY <1>0, <1>j DEF JobOK
<1>1. ASSUME manifest' = manifest PROVE GenerationOK'
  <2>1. CASE current' = current /\ ManifestSegments(current)' = ManifestSegments(current)
    BY <1>0, <1>1, <1>f, <2>1, JobFiles DEF GenerationOK
  <2>2. CASE /\ job.stage = "current" /\ current' = job.next.generation
             /\ ManifestSegments(current)' = job.next.segments
    <3>1. current' = manifest.generation + 1
      BY <1>j, <2>2 DEF JobOK
    <3> QED BY <1>0, <1>1, <1>f, <1>k, <2>2, <3>1, JobFiles DEF GenerationOK
  <2> QED BY <2>1, <2>2, JobFiles
<1>e. ASSUME JobEnds(TRUE) \/ JobEnds(FALSE) \/ job' = NoJob PROVE JobOK'
  <2>1. job' = NoJob
    BY <1>e DEF JobEnds
  <2>2. NoJob.stage = "free"
    BY DEF NoJob
  <2> QED BY <2>1, <2>2 DEF JobOK
<1>2. CASE JobSegment
  <2>1. GenerationOK'
    BY <1>1, <1>2 DEF JobSegment
  <2>2. /\ job.stage = "segment" /\ UNCHANGED <<manifests, current, manifest, pc>>
        /\ job' = [job EXCEPT !.stage = "manifest"]
        /\ segs' = WithSegment([id |-> job.id, docs |-> job.docs])
    BY <1>2 DEF JobSegment, threads
  <2>3. job.id \notin manifest.segments \cup ManifestSegments(current)
    BY <1>j, <2>2 DEF JobOK
  <2>4. Published' = Published /\ ManifestSegments(current)' = ManifestSegments(current)
    BY <1>0, <2>2, <2>3, SegmentAdded, JobFacts
  <2>5. /\ job'.stage = "manifest" /\ job'.owner = job.owner /\ job'.merge = job.merge
        /\ job'.id = job.id /\ job'.docs = job.docs /\ job'.next = job.next
        /\ job'.obsolete = job.obsolete
    BY <2>2 DEF Inv, TypeOK, WorkerType
  <2>6. SegmentDocs(job.next.segments \ {job.id})' = SegmentDocs(job.next.segments \ {job.id})
    BY <2>2, <2>5 DEF SegmentDocs, WithSegment
  <2>7. job.docs \subseteq SegmentDocs({job.id})'
    <3>1. [id |-> job.id, docs |-> job.docs] \in segs'
      BY <2>2 DEF WithSegment
    <3>2. SegmentDocs({job.id})' = UNION {f.docs : f \in {g \in segs' : g.id \in {job.id}}}
      BY <2>5 DEF SegmentDocs
    <3>3. [id |-> job.id, docs |-> job.docs].docs = job.docs
          /\ [id |-> job.id, docs |-> job.docs].id = job.id
      OBVIOUS
    <3> QED BY <3>1, <3>2, <3>3
  <2>8. JobOK'
    BY <1>0, <1>j, <2>2, <2>4, <2>5, <2>6, <2>7 DEF JobOK
  <2> QED BY <2>1, <2>8
<1>3. CASE JobManifest
  <2>1. GenerationOK'
    BY <1>1, <1>3 DEF JobManifest
  <2>2. /\ job.stage = "manifest" /\ UNCHANGED <<segs, current, manifest, pc>>
        /\ job' = [job EXCEPT !.stage = "current"] /\ Publishable(job.next)
        /\ manifests' = WithManifest(job.next)
    BY <1>3 DEF JobManifest, threads
  <2>3. job.next.generation > current /\ job.next.segments \subseteq FileIds
    BY <2>2 DEF Publishable
  <2>4. manifest.generation = current /\ job.next.generation # current
    BY <1>0, <1>f, <1>j, <2>2, <2>3 DEF JobOK
  <2>5. /\ job'.stage = "current" /\ job'.owner = job.owner /\ job'.merge = job.merge
        /\ job'.id = job.id /\ job'.docs = job.docs /\ job'.next = job.next
        /\ job'.obsolete = job.obsolete
    BY <2>2 DEF Inv, TypeOK, WorkerType
  <2>6. Published' = Published /\ ManifestSegments(current)' = ManifestSegments(current)
        /\ FileIds' = FileIds
    BY <1>f, <2>2, <2>4, ManifestAdded
  <2>7. SegmentDocs(job.next.segments \ {job.id})' = SegmentDocs(job.next.segments \ {job.id})
        /\ SegmentDocs({job.id})' = SegmentDocs({job.id})
    BY <2>2, <2>5 DEF SegmentDocs
  <2>8. ManifestSegments(job.next.generation)' = job.next.segments
    <3>1. {y \in manifests' : y.generation = job.next.generation} = {job.next}
      BY <2>2 DEF WithManifest
    <3> QED BY <2>5, <3>1 DEF ManifestSegments
  <2>9. (\E x \in manifests : x.generation = job.next.generation)'
    BY <2>2, <2>5 DEF WithManifest
  <2>10. JobOK'
    BY <1>0, <1>j, <2>2, <2>3, <2>4, <2>5, <2>6, <2>7, <2>8, <2>9 DEF JobOK
  <2> QED BY <2>1, <2>10
<1>4. CASE JobRefused
  BY <1>1, <1>4, <1>e DEF JobRefused
<1>5. CASE JobCurrent
  <2>1. GenerationOK'
    BY <1>1, <1>5 DEF JobCurrent
  <2>2. /\ job.stage = "current" /\ UNCHANGED <<segs, manifests, manifest, pc>>
        /\ job' = [job EXCEPT !.stage = "install"] /\ current' = job.next.generation
    BY <1>5 DEF JobCurrent, threads
  <2>3. ManifestSegments(current)' = job.next.segments
    BY <1>0, <2>2, CurrentReplaced
  <2>4. /\ job'.stage = "install" /\ job'.owner = job.owner /\ job'.merge = job.merge
        /\ job'.id = job.id /\ job'.docs = job.docs /\ job'.next = job.next
        /\ job'.obsolete = job.obsolete
    BY <2>2 DEF Inv, TypeOK, WorkerType
  <2>5. JobOK'
    BY <1>0, <1>j, <2>2, <2>3, <2>4 DEF JobOK
  <2> QED BY <2>1, <2>5
<1>6. CASE JobInstall
  <2>1. /\ job.stage = "install" /\ UNCHANGED <<segs, manifests, current>>
        /\ manifest' = job.next
    BY <1>6 DEF JobInstall, InstalledManifest, disk
  <2>2. current = job.next.generation /\ ManifestSegments(current) = job.next.segments
        /\ job.next.generation = manifest.generation + 1
        /\ (job.merge => job.obsolete.generation = manifest.generation)
    BY <1>j, <2>1 DEF JobOK
  <2>3. ManifestSegments(current)' = ManifestSegments(current) /\ CurrentOpens'
    BY <1>0, <2>1, FilesSame, JobFacts
  <2>4. GenerationOK'
    BY <1>0, <1>f, <1>k, <2>1, <2>2, <2>3 DEF GenerationOK
  <2>5. CASE job' = NoJob
    BY <2>4, <2>5, <1>e
  <2>6. CASE job' = [job EXCEPT !.stage = "reclaim"] /\ job.merge /\ UNCHANGED pc
    <3>1. /\ job'.stage = "reclaim" /\ job'.owner = job.owner /\ job'.merge = job.merge
          /\ job'.id = job.id /\ job'.docs = job.docs /\ job'.next = job.next
          /\ job'.obsolete = job.obsolete
      BY <2>6 DEF Inv, TypeOK, WorkerType
    <3>2. job.obsolete.generation < current
      BY <1>f, <2>2, <2>6
    <3>3. JobOK'
      BY <1>0, <1>k, <2>1, <2>2, <2>3, <2>6, <3>1, <3>2 DEF JobOK
    <3> QED BY <2>4, <3>3
  <2> QED BY <1>6, <2>5, <2>6 DEF JobInstall, JobEnds
<1>7. CASE JobReclaim
  <2>1. job.stage = "reclaim" /\ UNCHANGED <<current, manifest, job, pc>>
    BY <1>7 DEF JobReclaim, threads, worker
  <2>2. ManifestSegments(current)' = ManifestSegments(current)
    BY <2>1, JobFiles
  <2>3. JobOK'
    BY <1>0, <1>j, <2>1, <2>2 DEF JobOK
  <2> QED BY <1>1, <2>1, <2>3
<1>8. CASE JobReclaimed
  BY <1>1, <1>8, <1>e DEF JobReclaimed
<1>9. CASE JobFault
  BY <1>1, <1>9, <1>e DEF JobFault
<1> QED BY <1>2, <1>3, <1>4, <1>5, <1>6, <1>7, <1>8, <1>9 DEF JobStep

\* The worker's index stays published, once its flush has replaced CURRENT.
LEMMA JobFlush ==
  ASSUME Inv, JobStep \/ JobFault
  PROVE  FlushOK'
<1>0. up /\ job.stage # "free" /\ pc[job.owner] = "publishing" /\ UNCHANGED <<busy, snapshot>>
      /\ job.owner \in Callers \cup {Worker} /\ snapshot \in SUBSET Mutation
      /\ Published \in SUBSET Mutation
  BY JobFrame, JobFacts DEF flags
<1>1. AllCovered(Published, Published') /\ Published' \in SUBSET Mutation
  BY JobFiles
<1>2. pc'[Worker] \in {"wait", "exited"} => ~busy'
  <2>1. pc'[Worker] \in {"wait", "exited"} => pc'[Worker] = pc[Worker]
    BY <1>0, JobFrame, ThreadFacts
  <2> QED BY <1>0, <2>1 DEF Inv, WriterInv, FlushOK
<1>3. Flushed => AllCovered(snapshot, Published')
  BY <1>0, <1>1, CoverTransitive DEF Inv, WriterInv, FlushOK
<1>4. CASE JobCurrent /\ ~job.merge
  <2>1. job.docs \subseteq Published' /\ job.docs = snapshot
    BY <1>0, <1>4, CurrentReplaced DEF JobCurrent, Inv, WriterInv, JobOK
  <2> QED BY <1>0, <1>2, <2>1, CoverReflexive DEF Inv, WriterInv, FlushOK
<1>5. CASE ~(JobCurrent /\ ~job.merge)
  <2>1. CASE job.owner # Worker
    <3>1. pc'[Worker] = pc[Worker] /\ (job'.stage # "free" => job'.owner # Worker)
      <4>1. pc'[Worker] = pc[Worker]
        BY <2>1, JobFrame, ThreadFacts
      <4>2. job' = NoJob \/ job'.owner = job.owner
        BY <1>0, JobFrame DEF JobStep, JobFault, JobSegment, JobManifest, JobRefused, JobCurrent,
           JobInstall, JobReclaim, JobReclaimed, JobEnds, worker, Inv, TypeOK, WorkerType
      <4> QED BY <2>1, <4>1, <4>2 DEF NoJob
    <3>2. Flushed' => Flushed
      BY <3>1 DEF Flushed
    <3> QED BY <1>0, <1>2, <1>3, <3>2 DEF Inv, WriterInv, FlushOK
  <2>2. CASE job.owner = Worker
    <3>0. job.stage # "free" /\ pc[Worker] = "publishing"
          /\ pc \in [Threads -> ProducerStates \cup CallerStates \cup ReaderStates
                                 \cup WorkerStates]
      BY <1>0, <2>2 DEF Inv, TypeOK, ThreadType
    <3>1. CASE JobSegment \/ JobManifest \/ JobReclaim
      <4>1. pc' = pc /\ job'.merge = job.merge /\ (job'.stage = "install" => FALSE)
        BY <3>1 DEF JobSegment, JobManifest, JobReclaim, threads, worker, Inv, TypeOK, WorkerType
      <4> QED BY <1>0, <1>2, <1>3, <2>2, <3>0, <4>1 DEF Flushed, Inv, WriterInv, FlushOK
    <3>2. CASE JobRefused \/ JobFault
      <4>1. pc'[Worker] = "failed" /\ job' = NoJob
        BY <2>2, <3>0, <3>2, ThreadFacts DEF JobRefused, JobFault, JobEnds, CompactReturn
      <4> QED BY <1>0, <1>2, <4>1 DEF Flushed, NoJob, Inv, WriterInv, FlushOK
    <3>3. CASE JobCurrent
      <4>1. job.merge
        BY <1>5, <3>3
      <4> QED BY <1>0, <1>2, <1>3, <2>2, <3>0, <4>1 DEF Flushed, Inv, WriterInv, FlushOK
    <3>4. CASE JobInstall
      BY <1>0, <1>2, <1>3, <2>2, <3>4 DEF JobInstall, Flushed, Inv, WriterInv, FlushOK
    <3>5. CASE JobReclaimed
      <4>1. job.merge
        BY <3>5 DEF JobReclaimed, Inv, WriterInv, JobOK
      <4> QED BY <1>0, <1>2, <1>3, <2>2, <4>1 DEF Flushed, Inv, WriterInv, FlushOK
    <3> QED BY <3>1, <3>2, <3>3, <3>4, <3>5 DEF JobStep
  <2> QED BY <2>1, <2>2
<1> QED BY <1>4, <1>5

-----------------------------------------------------------------------------
(* The queue, the log and what was accepted                                *)

\* An index joins the queue.
LEMMA QueuedAppend ==
  ASSUME NEW A, frozen \in Seq((SUBSET Mutation) \ {{}}), frozen' = Append(frozen, A)
  PROVE  Queued' = Queued \cup A
<1>1. /\ Len(frozen') = Len(frozen) + 1 /\ Len(frozen) \in Nat
      /\ \A i \in 1..Len(frozen) : frozen'[i] = frozen[i]
      /\ frozen'[Len(frozen) + 1] = A
  OBVIOUS
<1>2. 1..Len(frozen') = (1..Len(frozen)) \cup {Len(frozen) + 1}
  BY <1>1
<1>3. Queued' = UNION {frozen'[i] : i \in 1..Len(frozen')}
  BY DEF Queued
<1>4. Queued = UNION {frozen[i] : i \in 1..Len(frozen)}
  BY DEF Queued
<1> QED BY <1>1, <1>2, <1>3, <1>4

\* The oldest index leaves the queue.
LEMMA QueuedHead ==
  ASSUME frozen \in Seq((SUBSET Mutation) \ {{}}), frozen # <<>>, frozen' = Tail(frozen)
  PROVE  Queued \subseteq Head(frozen) \cup Queued'
<1>1. /\ Len(frozen) \in Nat /\ Len(frozen) > 0 /\ Len(frozen') = Len(frozen) - 1
      /\ \A i \in 1..Len(frozen') : frozen'[i] = frozen[i + 1]
      /\ Head(frozen) = frozen[1]
  OBVIOUS
<1>2. Queued' = UNION {frozen'[i] : i \in 1..Len(frozen')}
  BY DEF Queued
<1>3. ASSUME NEW i \in 1..Len(frozen) PROVE frozen[i] \subseteq Head(frozen) \cup Queued'
  <2>1. CASE i = 1
    BY <1>1, <2>1
  <2>2. CASE i # 1
    <3>1. i - 1 \in 1..Len(frozen') /\ frozen'[i - 1] = frozen[i]
      BY <1>1, <2>2
    <3> QED BY <1>2, <3>1
  <2> QED BY <2>1, <2>2
<1> QED BY <1>3 DEF Queued

\* A record joins the log.
LEMMA LogAppend ==
  ASSUME NEW k, wal \in Seq(Mutation), wal' = Append(wal, k)
  PROVE  LogRecords' = LogRecords \cup {k}
<1>1. /\ Len(wal') = Len(wal) + 1 /\ Len(wal) \in Nat
      /\ \A i \in 1..Len(wal) : wal'[i] = wal[i]
      /\ wal'[Len(wal) + 1] = k
  OBVIOUS
<1>2. 1..Len(wal') = (1..Len(wal)) \cup {Len(wal) + 1}
  BY <1>1
<1>3. LogRecords' = {wal'[i] : i \in 1..Len(wal')}
  BY DEF LogRecords
<1> QED BY <1>1, <1>2, <1>3 DEF LogRecords

\* The sets the invariant speaks of are sets of mutations.
LEMMA SetTypes ==
  ASSUME TypeOK
  PROVE  /\ LogRecords \in SUBSET Mutation /\ Queued \in SUBSET Mutation
         /\ Published \in SUBSET Mutation /\ active \in SUBSET Mutation
         /\ versions \in SUBSET Mutation /\ snapshot \in SUBSET Mutation
         /\ Accepted \in SUBSET Mutation /\ acked \in SUBSET Mutation
<1>1. LogRecords \in SUBSET Mutation
  <2>1. wal \in Seq(Mutation)
    BY DEF TypeOK, DiskType
  <2> QED BY <2>1 DEF LogRecords
<1>2. Queued \in SUBSET Mutation
  <2>1. frozen \in Seq((SUBSET Mutation) \ {{}})
    BY DEF TypeOK, BufferType
  <2>2. \A i \in 1..Len(frozen) : frozen[i] \in SUBSET Mutation
    BY <2>1
  <2> QED BY <2>2 DEF Queued
<1>3. Published \in SUBSET Mutation
  BY FileTypes DEF Published
<1>4. Accepted \in SUBSET Mutation
  BY DEF TypeOK, ThreadType, HistoryType, Accepted
<1> QED BY <1>1, <1>2, <1>3, <1>4 DEF TypeOK, BufferType, WorkerType, HistoryType

\* The same after a step.
LEMMA SetTypesNext ==
  ASSUME TypeOK'
  PROVE  /\ LogRecords' \in SUBSET Mutation /\ Queued' \in SUBSET Mutation
         /\ Published' \in SUBSET Mutation /\ active' \in SUBSET Mutation
         /\ versions' \in SUBSET Mutation /\ snapshot' \in SUBSET Mutation
<1>1. LogRecords' \in SUBSET Mutation
  <2>1. wal' \in Seq(Mutation)
    BY DEF TypeOK, DiskType
  <2> QED BY <2>1 DEF LogRecords
<1>2. Queued' \in SUBSET Mutation
  <2>1. frozen' \in Seq((SUBSET Mutation) \ {{}})
    BY DEF TypeOK, BufferType
  <2>2. \A i \in 1..Len(frozen') : frozen'[i] \in SUBSET Mutation
    BY <2>1
  <2> QED BY <2>2 DEF Queued
<1>3. Published' \in SUBSET Mutation
  BY PublishedTypeNext
<1> QED BY <1>1, <1>2, <1>3 DEF TypeOK, BufferType, WorkerType

\* A freeze, when nobody logs and nothing has failed, empties the active index.
LEMMA Frozen ==
  ASSUME Inv, ~error, \A q \in Producers : pc[q] # "append", FreezeActive
  PROVE  /\ ActiveAfterFreeze = {} /\ buffered' = 0 /\ Queued' = Queued \cup active
<1>1. frozen \in Seq((SUBSET Mutation) \ {{}}) /\ buffered \in Nat
  BY DEF Inv, TypeOK, BufferType
<1>2. CASE buffered = 0
  <2>1. active = {} /\ frozen' = frozen
    BY <1>2 DEF Inv, WriterInv, ActiveOK, FreezeActive
  <2>2. Queued' = Queued
    BY <2>1 DEF Queued
  <2> QED BY <1>2, <2>1, <2>2 DEF ActiveAfterFreeze, FreezeActive
<1>3. CASE buffered # 0
  <2>1. frozen' = Append(frozen, active) /\ ActiveAfterFreeze = {} /\ buffered' = 0
    BY <1>3 DEF ActiveAfterFreeze, FreezeActive
  <2> QED BY <1>1, <2>1, QueuedAppend
<1> QED BY <1>2, <1>3

\* When nobody logs, versions_ covers the active index.
LEMMA ActiveCovered ==
  ASSUME Inv, up, ~error, \A q \in Producers : pc[q] # "append"
  PROVE  AllCovered(active, versions)
BY DEF Inv, WriterInv, ActiveOK, AllCovered

\* The steps of put that neither admit a document nor log one.
LEMMA PutOthers ==
  ASSUME Inv, NEW p \in Producers, PutAction(p), pc'[p] # "append", ~PutLogged(p), ~PutLogFails(p)
  PROVE  /\ mutex = NoThread /\ UNCHANGED <<wal, versions, error, overtaken>>
         /\ \/ UNCHANGED <<active, buffered, frozen>>
            \/ ~error /\ FreezeActive /\ active' = ActiveAfterFreeze
         /\ acked' \subseteq Accepted /\ acked \subseteq acked'
         /\ pc'[p] = "put_full" => pc[p] = "put_full" /\ req'[p] = req[p]
<1>0. pc \in [Threads -> ProducerStates \cup CallerStates \cup ReaderStates \cup WorkerStates]
      /\ p \in Threads
  BY ThreadFacts DEF Inv, TypeOK, ThreadType
<1>a. acked \subseteq Accepted
  BY DEF Accepted
<1>1. ASSUME NEW m, PutEnter(p, m), Runs(p)
      PROVE  /\ mutex = NoThread /\ UNCHANGED <<wal, versions, error, overtaken, acked>>
             /\ \/ UNCHANGED <<active, buffered, frozen>>
                \/ ~error /\ FreezeActive /\ active' = ActiveAfterFreeze
             /\ pc'[p] # "put_full"
  BY <1>0, <1>1 DEF PutEnter, PutProceed, PutReturns, SleepAt, Runs, flags, history
<1>2. CASE PutAdmitted(p)
  BY <1>0, <1>2, <1>a DEF PutAdmitted, PutProceed, PutReturns, SleepAt, Runs, flags
<1>3. CASE PutFull(p)
  <2>1. mutex = NoThread /\ UNCHANGED <<wal, versions, error, overtaken>>
    BY <1>3 DEF PutFull, Runs, disk, flags
  <2>2. req[p] \in Accepted
    BY <1>3 DEF PutFull, Accepted
  <2> QED BY <1>0, <1>3, <1>a, <2>1, <2>2 DEF PutFull, PutReturns, SleepAt
<1> QED BY <1>1, <1>2, <1>3, <1>a DEF PutAction, PutStep, PutCall, PutReenter

\* A step that accepts nothing new and takes nothing away.
LEMMA AcceptedFrame ==
  ASSUME Inv, TypeOK', AllCovered(Published, Published'),
         Accepted' \subseteq Accepted, overtaken \subseteq overtaken',
         LogRecords \ overtaken \subseteq (LogRecords \ overtaken)',
         begun' \subseteq acked', promised' = promised
  PROVE  AcceptedOK'
<1> DEFINE L == LogRecords \ overtaken
           K == (LogRecords \ overtaken)'
<1>0. /\ LogRecords \in SUBSET Mutation /\ Published \in SUBSET Mutation
      /\ Accepted \in SUBSET Mutation /\ promised \in SUBSET Mutation
  BY SetTypes DEF Inv, TypeOK, HistoryType
<1>1. LogRecords' \in SUBSET Mutation /\ Published' \in SUBSET Mutation
  BY SetTypesNext
<1>2. AllCovered(Accepted \ overtaken, Published \cup L)
  BY DEF Inv, WriterInv, AcceptedOK
<1>3. AllCovered(promised \ overtaken, Published)
  BY DEF Inv, WriterInv, AcceptedOK, RefreshedVisible
<1>4. AllCovered(L, Published' \cup K)
  BY <1>0, CoverReflexive
<1>5. AllCovered(Published, Published' \cup K)
  BY CoverMonotone
<1>6. AllCovered(Published \cup L, Published' \cup K)
  BY <1>4, <1>5, CoverUnion
<1>7. AllCovered(Accepted \ overtaken, Published' \cup K)
  BY <1>0, <1>1, <1>2, <1>6, CoverTransitive
<1>8. AllCovered((Accepted \ overtaken)', Published' \cup K)
  BY <1>7 DEF AllCovered
<1>9. AllCovered(promised \ overtaken, Published')
  BY <1>0, <1>1, <1>3, CoverTransitive
<1>10. RefreshedVisible'
  BY <1>9 DEF RefreshedVisible, AllCovered, CoveredBy
<1> QED BY <1>8, <1>10 DEF AcceptedOK, AllCovered, CoveredBy

\* put admits a document: it is active, not yet in the log.
LEMMA PutAdmits ==
  ASSUME Inv, NEW p \in Producers, PutAction(p), pc'[p] = "append"
  PROVE  ActiveOK' /\ LogOK' /\ AcceptedOK'
<1> DEFINE k == req'[p]
           A == ActiveAfterFreeze
<1>0. TypeOK' /\ TypeOK
  BY TypePut DEF PutAction, Inv
<1>1. /\ mutex = NoThread /\ mutex' = p
      /\ ~error /\ UNCHANGED <<wal, versions, error>>
      /\ ~CoveredBy(k, versions) /\ k \in Mutation
      /\ \/ /\ active' = PutDocument(active, k) /\ UNCHANGED <<frozen, buffered>>
            /\ ~refreshing /\ UNCHANGED overtaken
         \/ /\ FreezeActive
            /\ active' = PutDocument(A, k)
            /\ \/ ~refreshing /\ UNCHANGED overtaken
               \/ /\ pc[p] = "put_capacity"
                  /\ overtaken' = IF \E c \in Callers : pc[c] = "refresh_idle"
                                  THEN overtaken \cup {k} ELSE overtaken
  BY PutProceeds
<1>2. /\ up /\ UNCHANGED <<segs, manifests, current, up, snapshot, busy, begun, promised>>
      /\ \A t \in Threads \ {p} : pc'[t] = pc[t]
      /\ \A q \in Producers \ {p} : req'[q] = req[q]
  BY PutFrame DEF pubState
<1>3. Published' = Published /\ LogRecords' = LogRecords
  BY <1>1, <1>2, FilesSame DEF LogRecords
<1>4. \A q \in Producers : pc[q] # "append"
  BY <1>1, OnlyLogger
<1>5. AllCovered(active, versions) /\ AllCovered(LogRecords, versions)
  BY <1>1, <1>2, <1>4, ActiveCovered DEF Inv, WriterInv, ActiveOK
<1>6. k \in active'
  BY <1>1 DEF PutDocument
<1>s. /\ active \in SUBSET Mutation /\ versions \in SUBSET Mutation /\ Queued \in SUBSET Mutation
      /\ LogRecords \in SUBSET Mutation /\ Published \in SUBSET Mutation
      /\ snapshot \in SUBSET Mutation /\ active' \in SUBSET Mutation /\ Queued' \in SUBSET Mutation
  BY <1>0, SetTypes, SetTypesNext
<1>7. /\ AllCovered(active, active' \cup Queued') /\ Queued \subseteq Queued'
      /\ active' \subseteq active \cup {k}
      /\ FreezeActive => active' \subseteq {k} \/ active' = PutDocument(active, k)
  <2>1. CASE active' = PutDocument(active, k) /\ UNCHANGED <<frozen, buffered>>
    <3>1. AllCovered(active \cup {k}, active')
      BY <1>1, <1>5, <1>s, <2>1, PutCovers
    <3>2. AllCovered(active, active' \cup Queued')
      BY <3>1, CoverMonotone
    <3>3. Queued' = Queued /\ active' \subseteq active \cup {k}
      BY <2>1 DEF Queued, PutDocument
    <3> QED BY <2>1, <3>2, <3>3
  <2>2. CASE FreezeActive /\ active' = PutDocument(A, k)
    <3>1. A = {} /\ Queued' = Queued \cup active
      BY <1>1, <1>4, <2>2, Frozen
    <3>2. active' = {k}
      BY <2>2, <3>1 DEF PutDocument
    <3>3. AllCovered(active, active' \cup Queued')
      BY <1>s, <3>1, CoverReflexive
    <3> QED BY <3>1, <3>2, <3>3
  <2> QED BY <1>1, <2>1, <2>2
<1>8. ActiveOK'
  <2>1. AllCovered(LogRecords', versions')
    BY <1>1, <1>3, <1>5
  <2>2. \A m \in active' : CoveredBy(m, versions') \/ m = req'[p]
    BY <1>1, <1>5, <1>7 DEF AllCovered
  <2> QED BY <1>6, <2>1, <2>2 DEF ActiveOK
<1>9. LogOK'
  <2>1. AllCovered(LogRecords, Published \cup active \cup Queued \cup snapshot)
    BY <1>1, <1>2 DEF Inv, WriterInv, LogOK
  <2>2. AllCovered(LogRecords', (Published \cup active \cup Queued \cup snapshot)')
    <3> DEFINE S == Published \cup active \cup Queued \cup snapshot
               T == Published \cup active' \cup Queued' \cup snapshot
    <3>1. AllCovered(active, T)
      BY <1>7, CoverMonotone
    <3>2. AllCovered(Published \cup Queued \cup snapshot, T)
      BY <1>7, <1>s, CoverReflexive
    <3>3. AllCovered(S, T)
      BY <3>1, <3>2 DEF AllCovered
    <3>4. S \in SUBSET Mutation /\ T \in SUBSET Mutation /\ AllCovered(LogRecords, S)
      BY <1>s, <2>1
    <3> HIDE DEF S, T
    <3>5. AllCovered(LogRecords, T)
      BY <1>s, <3>3, <3>4, CoverTransitive
    <3>6. T = (Published \cup active \cup Queued \cup snapshot)'
      BY <1>2, <1>3 DEF T
    <3> QED BY <1>3, <3>5, <3>6
  <2>3. ASSUME NEW c \in Callers, PastFreeze(c)'
        PROVE  /\ active' \subseteq overtaken'
               /\ AllCovered(LogRecords' \ overtaken', Published' \cup Queued' \cup snapshot')
               /\ \A q \in Producers : pc'[q] = "append" => req'[q] \in overtaken'
    <3>1. pc[c] = "refresh_idle" /\ pc'[c] = pc[c]
      BY <1>1, <1>2, <2>3, OnlyLogger, ThreadFacts DEF PastFreeze
    <3>2. refreshing
      BY <3>1 DEF Inv, WriterInv, LockOK, InRefresh
    <3>3. overtaken' = overtaken \cup {k} /\ FreezeActive
      BY <1>1, <3>1, <3>2
    <3>4. active \subseteq overtaken
          /\ AllCovered(LogRecords \ overtaken, Published \cup Queued \cup snapshot)
      BY <1>1, <1>2, <3>1 DEF Inv, WriterInv, LogOK, PastFreeze
    <3>5. active' \subseteq overtaken'
      BY <1>7, <3>3, <3>4
    <3>6. AllCovered(LogRecords' \ overtaken', Published' \cup Queued' \cup snapshot')
      <4>1. LogRecords' \ overtaken' \subseteq LogRecords \ overtaken
        BY <1>3, <3>3
      <4>2. Published \cup Queued \cup snapshot \subseteq Published' \cup Queued' \cup snapshot'
        BY <1>2, <1>3, <1>7
      <4> QED BY <3>4, <4>1, <4>2, CoverMonotone
    <3>7. \A q \in Producers : pc'[q] = "append" => q = p
      BY <1>2, <1>4, ThreadFacts
    <3> QED BY <3>3, <3>5, <3>6, <3>7
  <2> QED BY <2>2, <2>3 DEF LogOK
<1>10. AcceptedOK'
  <2>1. k \notin LogRecords
    BY <1>1, <1>5 DEF AllCovered
  <2>2. overtaken' = overtaken \/ overtaken' = overtaken \cup {k}
    BY <1>1
  <2>3. LogRecords \ overtaken \subseteq (LogRecords \ overtaken)'
    BY <1>3, <2>1, <2>2
  <2>4. acked' = acked
    <3>1. pc \in [Threads -> ProducerStates \cup CallerStates \cup ReaderStates \cup WorkerStates]
          /\ p \in Threads
      BY <1>0, ThreadFacts DEF TypeOK, ThreadType
    <3> QED BY <3>1 DEF PutAction, PutStep, PutLogFails, PutCall, PutReenter, PutAdmitted,
               PutLogged, PutFull, PutEnter, PutReturns, SleepAt, history
  <2>5. Accepted' \subseteq Accepted
    BY <1>2, <2>4, ThreadFacts DEF Accepted
  <2>6. AllCovered(Published, Published')
    BY <1>3, <1>s, CoverReflexive
  <2>7. begun' \subseteq acked' /\ promised' = promised
    BY <1>2, <2>4 DEF Inv, WriterInv, AcceptedOK
  <2> QED BY <1>0, <2>2, <2>3, <2>5, <2>6, <2>7, AcceptedFrame
<1> QED BY <1>8, <1>9, <1>10

\* A step that logs nothing and moves mutations only towards the published
\* generation.
LEMMA LogFrame ==
  ASSUME Inv, TypeOK', (up' /\ ~error') => (up /\ ~error), UNCHANGED overtaken,
         LogRecords' = LogRecords, AllCovered(Published, Published'),
         (up' /\ ~error') => AllCovered(Queued \cup snapshot, Published' \cup Queued' \cup snapshot'),
         active \subseteq active' \cup Queued', active' \subseteq active,
         \A c \in Callers : PastFreeze(c)' => PastFreeze(c),
         \A q \in Producers : pc'[q] = "append" => pc[q] = "append" /\ req'[q] = req[q]
  PROVE  LogOK'
<1> SUFFICES ASSUME up', ~error'
             PROVE  /\ AllCovered(LogRecords', (Published \cup active \cup Queued \cup snapshot)')
                    /\ (\E c \in Callers : PastFreeze(c)') =>
                         /\ active' \subseteq overtaken'
                         /\ AllCovered(LogRecords' \ overtaken', (Published \cup Queued \cup snapshot)')
                         /\ \A p \in Producers : pc'[p] = "append" => req'[p] \in overtaken'
  BY DEF LogOK
<1> DEFINE P == Published \cup Queued \cup snapshot
           Q == (Published \cup Queued \cup snapshot)'
<1>0. up /\ ~error
  OBVIOUS
<1>1. /\ LogRecords \in SUBSET Mutation /\ P \in SUBSET Mutation /\ active \in SUBSET Mutation
      /\ Q \in SUBSET Mutation /\ active' \in SUBSET Mutation
      /\ Published \in SUBSET Mutation
  BY SetTypes, SetTypesNext DEF Inv
<1>2. AllCovered(P, Q)
  <2>1. AllCovered(Published, Q)
    BY CoverMonotone
  <2> QED BY <2>1 DEF AllCovered
<1>3. AllCovered(LogRecords, P \cup active)
  BY <1>0 DEF Inv, WriterInv, LogOK, AllCovered, CoveredBy
<1>4. AllCovered(P \cup active, Q \cup active')
  <2>1. AllCovered(active, Q \cup active')
    BY <1>1, CoverReflexive
  <2>2. AllCovered(P, Q \cup active')
    BY <1>2, CoverMonotone
  <2> QED BY <2>1, <2>2, CoverUnion
<1>h. (Published \cup active \cup Queued \cup snapshot)' = Q \cup active'
  OBVIOUS
<1> HIDE DEF P, Q
<1>5. AllCovered(LogRecords, Q \cup active')
  BY <1>1, <1>3, <1>4, CoverTransitive
<1>6. ASSUME \E c \in Callers : PastFreeze(c)'
      PROVE  /\ active' \subseteq overtaken' /\ AllCovered(LogRecords' \ overtaken', Q)
             /\ \A p \in Producers : pc'[p] = "append" => req'[p] \in overtaken'
  <2>1. \E c \in Callers : PastFreeze(c)
    BY <1>6
  <2>2. /\ active \subseteq overtaken /\ AllCovered(LogRecords \ overtaken, P)
        /\ \A p \in Producers : pc[p] = "append" => req[p] \in overtaken
    BY <1>0, <2>1 DEF Inv, WriterInv, LogOK, P
  <2>3. AllCovered(LogRecords \ overtaken, Q)
    BY <1>1, <1>2, <2>2, CoverTransitive
  <2> QED BY <2>2, <2>3
<1> QED BY <1>5, <1>6, <1>h DEF Q

\* A step that leaves the active index and versions_ alone.
LEMMA ActiveFrame ==
  ASSUME Inv, (up' /\ ~error') => (up /\ ~error), ~error' => ~error,
         UNCHANGED <<versions, active, buffered>>, LogRecords' = LogRecords,
         \A q \in Producers : pc'[q] = pc[q] /\ req'[q] = req[q]
  PROVE  ActiveOK'
BY DEF Inv, WriterInv, ActiveOK, AllCovered, CoveredBy

\* The other steps of put.
LEMMA PutRests ==
  ASSUME Inv, NEW p \in Producers, PutAction(p), pc'[p] # "append", ~PutLogged(p), ~PutLogFails(p)
  PROVE  ActiveOK' /\ LogOK' /\ AcceptedOK'
<1>0. TypeOK' /\ TypeOK
  BY TypePut DEF PutAction, Inv
<1>1. /\ mutex = NoThread /\ UNCHANGED <<wal, versions, error, overtaken>>
      /\ \/ UNCHANGED <<active, buffered, frozen>>
         \/ ~error /\ FreezeActive /\ active' = ActiveAfterFreeze
      /\ acked' \subseteq Accepted /\ acked \subseteq acked'
      /\ pc'[p] = "put_full" => pc[p] = "put_full" /\ req'[p] = req[p]
  BY PutOthers
<1>2. /\ up /\ UNCHANGED <<segs, manifests, current, up, snapshot, busy, begun, promised>>
      /\ \A t \in Threads \ {p} : pc'[t] = pc[t]
      /\ \A q \in Producers \ {p} : req'[q] = req[q]
  BY PutFrame DEF pubState
<1>3. Published' = Published /\ LogRecords' = LogRecords
  BY <1>1, <1>2, FilesSame DEF LogRecords
<1>4. \A q \in Producers : pc[q] # "append" /\ pc'[q] # "append"
  BY <1>1, <1>2, OnlyLogger, ThreadFacts
<1>5. \/ UNCHANGED <<active, buffered>> /\ Queued' = Queued
      \/ ~error /\ active' = {} /\ buffered' = 0 /\ Queued' = Queued \cup active
  <2>1. UNCHANGED frozen => Queued' = Queued
    BY DEF Queued
  <2> QED BY <1>1, <1>4, <2>1, Frozen
<1>s. AllCovered(Published, Published')
      /\ AllCovered(Queued \cup snapshot, Published' \cup Queued' \cup snapshot')
  BY <1>0, <1>2, <1>3, <1>5, SetTypes, CoverReflexive
<1>6. ActiveOK'
  <2>1. /\ (up /\ ~error) => AllCovered(LogRecords, versions)
        /\ (up /\ ~error) => \A m \in active : CoveredBy(m, versions)
        /\ buffered # 0 => active # {}
        /\ (~error /\ buffered = 0) => active = {}
    BY <1>4 DEF Inv, WriterInv, ActiveOK
  <2>2. /\ active' \subseteq active /\ (buffered' # 0 => active' # {})
        /\ (~error /\ buffered' = 0) => active' = {}
    BY <1>5, <2>1
  <2>3. (up' <=> up) /\ (error' <=> error) /\ versions' = versions
    BY <1>1, <1>2
  <2>4. (up' /\ ~error') => /\ AllCovered(LogRecords', versions')
                           /\ \A m \in active' : CoveredBy(m, versions')
    BY <1>3, <2>1, <2>2, <2>3
  <2>5. (~error' /\ buffered' = 0) => active' = {}
    BY <2>2, <2>3
  <2> QED BY <2>2, <2>4, <2>5 DEF ActiveOK
<1>7. LogOK'
  <2>1. \A c \in Callers : PastFreeze(c)' => PastFreeze(c)
    BY <1>2, ThreadFacts DEF PastFreeze
  <2>2. (up' /\ ~error') => (up /\ ~error)
    BY <1>1, <1>2
  <2>3. active \subseteq active' \cup Queued' /\ active' \subseteq active
    BY <1>5
  <2> QED BY <1>0, <1>1, <1>3, <1>4, <1>s, <2>1, <2>2, <2>3, LogFrame
<1>8. AcceptedOK'
  <2>1. Accepted' \subseteq Accepted
    BY <1>1, <1>2, ThreadFacts DEF Accepted
  <2>2. begun' \subseteq acked'
    BY <1>1, <1>2 DEF Inv, WriterInv, AcceptedOK
  <2> QED BY <1>0, <1>1, <1>2, <1>3, <1>s, <2>1, <2>2, AcceptedFrame
<1> QED BY <1>6, <1>7, <1>8

\* The record is in the log: the mutation counts.
LEMMA PutLogs ==
  ASSUME Inv, NEW p \in Producers, PutLogged(p)
  PROVE  ActiveOK' /\ LogOK' /\ AcceptedOK'
<1> DEFINE k == req[p]
<1>a. PutAction(p)
  BY DEF PutAction, PutStep
<1>0. TypeOK' /\ TypeOK /\ k \in Mutation
  BY <1>a, TypePut DEF PutAction, Inv, TypeOK, ThreadType
<1>1. /\ mutex = p /\ pc[p] = "append" /\ wal' = Append(wal, k)
      /\ versions' = PutDocument(versions, k) /\ UNCHANGED <<error, overtaken>>
  BY DEF PutLogged, flags
<1>2. /\ up /\ UNCHANGED <<segs, manifests, current, up, snapshot, busy, begun, promised>>
      /\ \A t \in Threads \ {p} : pc'[t] = pc[t]
      /\ \A q \in Producers \ {p} : req'[q] = req[q]
  BY <1>a, PutFrame DEF pubState
<1>3. ~error /\ ~CoveredBy(k, versions) /\ k \in active
  BY <1>1 DEF Inv, WriterInv, LockOK, Stale
<1>4. Published' = Published /\ LogRecords' = LogRecords \cup {k}
  BY <1>0, <1>1, <1>2, FilesSame, LogAppend DEF TypeOK, DiskType
<1>5. /\ \A q \in Producers \ {p} : pc[q] # "append" /\ pc'[q] # "append"
      /\ \A c \in Callers : pc[c] # "reset"
  BY <1>1, <1>2, OnlyLogger, ThreadFacts
<1>6. /\ pc'[p] # "append" /\ acked \subseteq acked' /\ acked' \subseteq acked \cup {k}
      /\ pc'[p] = "put_full" => req'[p] = k
  <2>1. pc \in [Threads -> ProducerStates \cup CallerStates \cup ReaderStates \cup WorkerStates]
        /\ p \in Threads
    BY <1>0, ThreadFacts DEF TypeOK, ThreadType
  <2> QED BY <2>1 DEF PutLogged, PutReturns, SleepAt
<1>7. \/ active' = active /\ frozen' = frozen /\ buffered' = buffered + 1
      \/ active' = {} /\ frozen' = Append(frozen, active) /\ buffered' = 0
  BY DEF PutLogged
<1>8. /\ \/ active' = active /\ Queued' = Queued
         \/ active' = {} /\ Queued' = Queued \cup active
      /\ buffered' # 0 => active' # {}
      /\ buffered' = 0 => active' = {}
  <2>1. frozen \in Seq((SUBSET Mutation) \ {{}}) /\ buffered \in Nat
    BY <1>0 DEF TypeOK, BufferType
  <2>2. CASE active' = active /\ frozen' = frozen /\ buffered' = buffered + 1
    BY <1>3, <2>1, <2>2 DEF Queued
  <2>3. CASE active' = {} /\ frozen' = Append(frozen, active) /\ buffered' = 0
    BY <2>1, <2>3, QueuedAppend
  <2> QED BY <1>7, <2>2, <2>3
<1>s. /\ active \in SUBSET Mutation /\ versions \in SUBSET Mutation /\ Queued \in SUBSET Mutation
      /\ LogRecords \in SUBSET Mutation /\ Published \in SUBSET Mutation
      /\ snapshot \in SUBSET Mutation
  BY <1>0, SetTypes
<1>9. ActiveOK'
  <2>1. AllCovered(versions \cup {k}, versions')
    BY <1>0, <1>1, <1>3, <1>s, CoverReflexive, PutCovers
  <2>2. AllCovered(LogRecords, versions)
        /\ \A m \in active : CoveredBy(m, versions) \/ m = k
    BY <1>2, <1>3, <1>5 DEF Inv, WriterInv, ActiveOK
  <2>3. AllCovered(LogRecords \cup {k} \cup active, versions \cup {k})
    <3>1. CoveredBy(k, {k})
      BY <1>0, MutationFields DEF CoveredBy
    <3> QED BY <2>2, <3>1 DEF AllCovered, CoveredBy
  <2>4. versions' \in SUBSET Mutation
    BY <1>0, SetTypesNext
  <2>5. AllCovered(LogRecords \cup {k} \cup active, versions')
    BY <1>0, <1>s, <2>1, <2>3, <2>4, CoverTransitive
  <2>6. AllCovered(LogRecords', versions') /\ \A m \in active' : CoveredBy(m, versions')
    BY <1>4, <1>8, <2>5 DEF AllCovered
  <2> QED BY <1>8, <2>6 DEF ActiveOK
<1>10. LogOK'
  <2> DEFINE T == Published \cup active' \cup Queued' \cup snapshot
  <2>1. AllCovered(LogRecords, Published \cup active \cup Queued \cup snapshot)
    BY <1>2, <1>3 DEF Inv, WriterInv, LogOK
  <2>2. Published \cup active \cup Queued \cup snapshot \subseteq T /\ k \in T
    BY <1>3, <1>8
  <2>3. AllCovered(LogRecords, T)
    BY <2>1, <2>2, CoverMonotone
  <2>4. AllCovered(LogRecords \cup {k}, T)
    <3>1. CoveredBy(k, T)
      BY <1>0, <2>2, MutationFields DEF CoveredBy
    <3> QED BY <2>3, <3>1 DEF AllCovered
  <2>5. T = (Published \cup active \cup Queued \cup snapshot)'
    BY <1>2, <1>4
  <2>6. ASSUME NEW c \in Callers, PastFreeze(c)'
        PROVE  /\ active' \subseteq overtaken'
               /\ AllCovered(LogRecords' \ overtaken', (Published \cup Queued \cup snapshot)')
               /\ \A q \in Producers : pc'[q] = "append" => req'[q] \in overtaken'
    <3>1. PastFreeze(c)
      BY <1>2, <2>6, ThreadFacts DEF PastFreeze
    <3>2. /\ active \subseteq overtaken /\ k \in overtaken
          /\ AllCovered(LogRecords \ overtaken, Published \cup Queued \cup snapshot)
      BY <1>1, <1>2, <1>3, <3>1 DEF Inv, WriterInv, LogOK
    <3>3. LogRecords' \ overtaken' = LogRecords \ overtaken /\ active' \subseteq active
          /\ Published \cup Queued \cup snapshot \subseteq (Published \cup Queued \cup snapshot)'
      BY <1>1, <1>2, <1>4, <1>8, <3>2
    <3>4. AllCovered(LogRecords' \ overtaken', (Published \cup Queued \cup snapshot)')
      BY <3>2, <3>3, CoverMonotone
    <3> QED BY <1>1, <1>5, <1>6, <3>2, <3>3, <3>4
  <2> QED BY <1>4, <2>4, <2>5, <2>6 DEF LogOK
<1>11. AcceptedOK'
  <2> DEFINE S == Published \cup (LogRecords \ overtaken)
             T == Published' \cup (LogRecords' \ overtaken')
  <2>1. Accepted' \subseteq Accepted \cup {k}
    BY <1>2, <1>5, <1>6, ThreadFacts DEF Accepted
  <2>2. AllCovered(Accepted \ overtaken, S) /\ S \subseteq T
    BY <1>1, <1>4 DEF Inv, WriterInv, AcceptedOK
  <2>3. k \notin overtaken => k \in T
    BY <1>1, <1>4
  <2>4. k \notin overtaken => CoveredBy(k, T)
    BY <1>0, <2>3, MutationFields DEF CoveredBy
  <2>5. AllCovered(Accepted \ overtaken, T)
    BY <2>2, CoverMonotone
  <2>6. AllCovered(Accepted' \ overtaken', T)
    BY <1>1, <2>1, <2>4, <2>5 DEF AllCovered
  <2>7. begun' \subseteq acked' /\ AllCovered(promised' \ overtaken', Published')
    BY <1>1, <1>2, <1>4, <1>6 DEF Inv, WriterInv, AcceptedOK, RefreshedVisible
  <2>8. AllCovered((Accepted \ overtaken)', (Published \cup (LogRecords \ overtaken))')
    BY <2>6
  <2> QED BY <2>7, <2>8 DEF AcceptedOK, RefreshedVisible, AllCovered, CoveredBy
<1> QED BY <1>9, <1>10, <1>11

\* The append fails: from then on the writer accepts nothing.
LEMMA PutFails ==
  ASSUME Inv, NEW p \in Producers, PutLogFails(p)
  PROVE  ActiveOK' /\ LogOK' /\ AcceptedOK'
<1>a. PutAction(p)
  BY DEF PutAction
<1>0. TypeOK' /\ TypeOK /\ wal \in Seq(Mutation)
  BY <1>a, TypePut DEF PutAction, Inv, TypeOK, DiskType
<1>1. /\ error' /\ UNCHANGED <<active, buffered, overtaken, acked, begun, promised>>
      /\ wal' = wal \/ wal' = Append(wal, req[p])
  BY DEF PutLogFails, StickyError, buffer
<1>2. /\ UNCHANGED <<segs, manifests, current>>
      /\ \A t \in Threads \ {p} : pc'[t] = pc[t]
      /\ \A q \in Producers \ {p} : req'[q] = req[q]
  BY <1>a, PutFrame DEF pubState
<1>3. Published' = Published /\ LogRecords \subseteq LogRecords'
  <2>1. wal' = wal => LogRecords' = LogRecords
    BY DEF LogRecords
  <2> QED BY <1>0, <1>1, <1>2, <2>1, FilesSame, LogAppend
<1>4. ActiveOK' /\ LogOK'
  BY <1>1 DEF Inv, WriterInv, ActiveOK, LogOK
<1>5. pc'[p] = "idle"
  BY <1>0, ThreadFacts DEF PutLogFails, PutReturns, TypeOK, ThreadType
<1>6. Accepted' \subseteq Accepted
  BY <1>1, <1>2, <1>5, ThreadFacts DEF Accepted
<1>7. AllCovered(Published, Published')
  BY <1>0, <1>3, SetTypes, CoverReflexive
<1>8. begun' \subseteq acked'
  BY <1>1 DEF Inv, WriterInv, AcceptedOK
<1>9. AcceptedOK'
  BY <1>0, <1>1, <1>3, <1>6, <1>7, <1>8, AcceptedFrame
<1> QED BY <1>4, <1>9

\* The steps of refresh before the log reset: a refresh that waits for the
\* worker has frozen the active index.
LEMMA RefreshWaits ==
  ASSUME Inv, NEW c \in Callers, RefreshAction(c), ~RefreshReset(c), ~RefreshResetFails(c)
  PROVE  /\ mutex = NoThread /\ UNCHANGED <<wal, error, promised>>
         /\ \/ UNCHANGED <<active, buffered>> /\ Queued' = Queued
            \/ ~error /\ active' = {} /\ buffered' = 0 /\ Queued' = Queued \cup active
         /\ PastFreeze(c)' => (PastFreeze(c) \/ (~error /\ active' = {}))
         /\ begun' = begun \/ begun' \subseteq acked
<1>0. pc \in [Threads -> ProducerStates \cup CallerStates \cup ReaderStates \cup WorkerStates]
      /\ c \in Threads
  BY ThreadFacts DEF Inv, TypeOK, ThreadType
<1>m. mutex = NoThread /\ \A q \in Producers : pc[q] # "append"
  <2>1. mutex = NoThread
    BY DEF RefreshAction, RefreshCall, RefreshReenter, RefreshCapacity, RefreshIdle, CloseStop, Runs
  <2> QED BY <2>1, OnlyResetter
<1>w. UNCHANGED <<wal, error, promised>>
  BY DEF RefreshAction, RefreshCall, RefreshReenter, RefreshCapacity, RefreshIdle, CloseStop,
     RefreshEnter, disk, history
<1>q. UNCHANGED frozen => Queued' = Queued
  BY DEF Queued
<1>1. ASSUME NEW o, RefreshEnter(c, o)
      PROVE  /\ \/ UNCHANGED <<active, buffered>> /\ Queued' = Queued
                \/ ~error /\ active' = {} /\ buffered' = 0 /\ Queued' = Queued \cup active
             /\ PastFreeze(c)' => ~error /\ active' = {}
             /\ begun' = begun \/ begun' = acked
  <2>1. CASE error \/ refreshing
    BY <1>0, <1>1, <1>q, <2>1 DEF RefreshEnter, SleepAt, PastFreeze
  <2>2. CASE /\ ~refreshing /\ ~error /\ buffered = 0 /\ begun' = acked
             /\ UNCHANGED <<active, buffered, frozen>>
    <3>1. active = {}
      BY <1>m, <2>2 DEF Inv, WriterInv, ActiveOK
    <3> QED BY <1>q, <2>2, <3>1
  <2>3. CASE /\ ~refreshing /\ ~error /\ buffered # 0 /\ begun' = acked
             /\ FreezeActive /\ active' = {}
    BY <1>m, <2>3, Frozen
  <2>4. CASE /\ ~refreshing /\ ~error /\ begun' = acked
             /\ SleepAt(c, "refresh_capacity")
             /\ UNCHANGED <<active, buffered, frozen>>
    BY <1>0, <1>q, <2>4 DEF SleepAt, PastFreeze
  <2> QED BY <1>1, <2>1, <2>2, <2>3, <2>4 DEF RefreshEnter
<1>2. CASE RefreshCapacity(c)
  <2>1. CASE RefreshFails(c) /\ UNCHANGED <<active, buffered, frozen>>
    BY <1>0, <1>m, <1>w, <1>q, <2>1 DEF RefreshFails, FinishRefresh, AfterRefresh, PastFreeze
  <2>2. CASE SleepAt(c, "refresh_capacity") /\ UNCHANGED <<active, buffered, frozen, begun>>
    BY <1>0, <1>m, <1>w, <1>q, <2>2 DEF SleepAt, PastFreeze
  <2>3. CASE ~error /\ FreezeActive /\ active' = ActiveAfterFreeze /\ UNCHANGED begun
    BY <1>m, <1>w, <2>3, Frozen
  <2> QED BY <1>2, <2>1, <2>2, <2>3 DEF RefreshCapacity
<1>3. CASE RefreshIdle(c)
  <2>1. PastFreeze(c) /\ UNCHANGED <<active, buffered, frozen>>
    BY <1>3 DEF RefreshIdle, PastFreeze, buffer
  <2>2. begun' = begun \/ begun' = {}
    BY <1>3 DEF RefreshIdle, RefreshFails, FinishRefresh
  <2> QED BY <1>m, <1>w, <1>q, <2>1, <2>2
<1>4. CASE CloseStop(c)
  BY <1>0, <1>m, <1>w, <1>q, <1>4 DEF CloseStop, PastFreeze, buffer, history
<1>5. ASSUME NEW o, RefreshEnter(c, o)
      PROVE  /\ \/ UNCHANGED <<active, buffered>> /\ Queued' = Queued
                \/ ~error /\ active' = {} /\ buffered' = 0 /\ Queued' = Queued \cup active
             /\ PastFreeze(c)' => (PastFreeze(c) \/ (~error /\ active' = {}))
             /\ begun' = begun \/ begun' \subseteq acked
  BY <1>1, <1>5
<1> QED BY <1>2, <1>3, <1>4, <1>5, <1>m, <1>w DEF RefreshAction, RefreshCall, RefreshReenter

\* At the log reset, everything accepted that was not overtaken is published.
LEMMA ResetSafe ==
  ASSUME Inv, up, NEW c \in Callers, pc[c] = "reset"
  PROVE  AllCovered(Accepted \ overtaken, Published)
<1>0. ~error /\ ~busy /\ frozen = <<>> /\ PastFreeze(c)
  BY DEF Inv, WriterInv, LockOK, PastFreeze
<1>1. Queued = {} /\ snapshot = {}
  BY <1>0 DEF Inv, WriterInv, FlushOK, Queued
<1>2. AllCovered(LogRecords \ overtaken, Published)
  BY <1>0, <1>1 DEF Inv, WriterInv, LogOK, AllCovered, CoveredBy
<1>3. /\ LogRecords \in SUBSET Mutation /\ Published \in SUBSET Mutation
      /\ Accepted \in SUBSET Mutation
  BY SetTypes DEF Inv
<1>4. AllCovered(Published \cup (LogRecords \ overtaken), Published)
  <2>1. AllCovered(Published, Published)
    BY <1>3, CoverReflexive
  <2> QED BY <1>2, <2>1, CoverUnion
<1>5. AllCovered(Accepted \ overtaken, Published \cup (LogRecords \ overtaken))
  BY DEF Inv, WriterInv, AcceptedOK
<1> QED BY <1>3, <1>4, <1>5, CoverTransitive

\* The steps of refresh keep what the log and the active index promise.
LEMMA RefreshActs ==
  ASSUME Inv, NEW c \in Callers, RefreshAction(c)
  PROVE  ActiveOK' /\ LogOK' /\ AcceptedOK'
<1>0. TypeOK' /\ TypeOK
  BY TypeRefresh DEF RefreshAction, Inv
<1>f. /\ up /\ mutex \in {NoThread, c}
      /\ UNCHANGED <<segs, manifests, current, up, snapshot, busy, versions, req, acked, overtaken>>
      /\ \A t \in Threads \ {c} : pc'[t] = pc[t]
  BY RefreshFrame DEF pubState
<1>p. Published' = Published /\ AllCovered(Published, Published')
  BY <1>0, <1>f, FilesSame, SetTypes, CoverReflexive
<1>q. /\ \A q \in Producers : pc[q] # "append" /\ pc'[q] = pc[q]
      /\ \A d \in Callers \ {c} : pc'[d] = pc[d]
  BY <1>f, OnlyResetter, ThreadFacts
<1>a. Accepted' = Accepted
  BY <1>f, <1>q DEF Accepted
<1>s. /\ active \in SUBSET Mutation /\ Queued \in SUBSET Mutation /\ Published \in SUBSET Mutation
      /\ LogRecords \in SUBSET Mutation /\ snapshot \in SUBSET Mutation
  BY <1>0, SetTypes
<1>b. /\ (up /\ ~error) => AllCovered(LogRecords, versions)
      /\ (up /\ ~error) => \A m \in active : CoveredBy(m, versions)
      /\ buffered # 0 => active # {}
      /\ (~error /\ buffered = 0) => active = {}
  BY <1>q DEF Inv, WriterInv, ActiveOK
<1>1. CASE ~RefreshReset(c) /\ ~RefreshResetFails(c)
  <2>1. /\ UNCHANGED <<wal, error, promised>>
        /\ \/ UNCHANGED <<active, buffered>> /\ Queued' = Queued
           \/ ~error /\ active' = {} /\ buffered' = 0 /\ Queued' = Queued \cup active
        /\ PastFreeze(c)' => (PastFreeze(c) \/ (~error /\ active' = {}))
        /\ begun' = begun \/ begun' \subseteq acked
    BY <1>1, RefreshWaits
  <2>2. LogRecords' = LogRecords
    BY <2>1 DEF LogRecords
  <2>3. ActiveOK'
    <3>1. /\ active' \subseteq active /\ (buffered' # 0 => active' # {})
          /\ (~error /\ buffered' = 0) => active' = {}
      BY <1>b, <2>1
    <3>2. (up' <=> up) /\ (error' <=> error) /\ versions' = versions
      BY <1>f, <2>1
    <3>3. (up' /\ ~error') => /\ AllCovered(LogRecords', versions')
                             /\ \A m \in active' : CoveredBy(m, versions')
      BY <1>b, <2>2, <3>1, <3>2
    <3>4. (~error' /\ buffered' = 0) => active' = {}
      BY <3>1, <3>2
    <3> QED BY <3>1, <3>3, <3>4 DEF ActiveOK
  <2>4. LogOK'
    <3>0. (up' /\ ~error') => (up /\ ~error)
      BY <1>f, <2>1
    <3>1. CASE PastFreeze(c)' => PastFreeze(c)
      <4>1. \A d \in Callers : PastFreeze(d)' => PastFreeze(d)
        BY <1>q, <3>1 DEF PastFreeze
      <4>2. active \subseteq active' \cup Queued' /\ active' \subseteq active
        BY <2>1
      <4>3. AllCovered(Queued \cup snapshot, Published' \cup Queued' \cup snapshot')
        BY <1>f, <1>s, <2>1, CoverReflexive
      <4> QED BY <1>0, <1>f, <1>p, <1>q, <2>2, <3>0, <4>1, <4>2, <4>3, LogFrame
    <3>2. CASE active' = {} /\ ~error
      <4> DEFINE T == (Published \cup Queued \cup snapshot)'
      <4>1. AllCovered(LogRecords, Published \cup active \cup Queued \cup snapshot)
        BY <1>f, <3>2 DEF Inv, WriterInv, LogOK
      <4>2. Published \cup active \cup Queued \cup snapshot \subseteq T
        BY <1>f, <1>p, <2>1, <3>2
      <4>3. AllCovered(LogRecords', T)
        BY <2>2, <4>1, <4>2, CoverMonotone
      <4>4. AllCovered(LogRecords', (Published \cup active \cup Queued \cup snapshot)')
        BY <4>3, CoverMonotone
      <4>5. AllCovered(LogRecords' \ overtaken', T)
        BY <4>3, CoverMonotone
      <4> QED BY <1>q, <3>2, <4>4, <4>5 DEF LogOK
    <3> QED BY <2>1, <3>1, <3>2
  <2>5. AcceptedOK'
    <3>1. begun' \subseteq acked'
      BY <1>f, <2>1 DEF Inv, WriterInv, AcceptedOK
    <3> QED BY <1>0, <1>a, <1>f, <1>p, <2>1, <2>2, <3>1, AcceptedFrame
  <2> QED BY <2>3, <2>4, <2>5
<1>2. CASE RefreshReset(c) \/ RefreshResetFails(c)
  <2>1. /\ pc[c] = "reset" /\ UNCHANGED <<active, buffered, frozen>> /\ begun' = {}
        /\ wal' = wal \/ wal' = <<>>
        /\ promised' = promised \/ promised' = promised \cup begun
    BY <1>2 DEF RefreshReset, RefreshResetFails, RefreshFails, FinishRefresh, buffer
  <2>2. LogRecords' = LogRecords \/ LogRecords' = {}
    BY <2>1 DEF LogRecords
  <2>3. error' \/ (LogRecords' = {} /\ error' = error)
    <3>1. CASE RefreshReset(c)
      BY <3>1 DEF RefreshReset, LogRecords
    <3>2. CASE RefreshResetFails(c)
      BY <3>2 DEF RefreshResetFails, StickyError
    <3> QED BY <1>2, <3>1, <3>2
  <2>e. ~error
    BY <2>1 DEF Inv, WriterInv, LockOK
  <2>4. ActiveOK'
    <3>1. (up' /\ ~error') => /\ AllCovered(LogRecords', versions')
                             /\ \A m \in active' : CoveredBy(m, versions')
      BY <1>b, <1>f, <2>1, <2>3, <2>e DEF AllCovered
    <3> QED BY <1>b, <2>1, <2>e, <3>1 DEF ActiveOK
  <2>5. LogOK'
    <3>1. pc'[c] \notin {"refresh_idle", "reset"}
      <4>1. pc \in [Threads -> ProducerStates \cup CallerStates \cup ReaderStates \cup WorkerStates]
            /\ c \in Threads
        BY <1>0, ThreadFacts DEF TypeOK, ThreadType
      <4> QED BY <1>2, <4>1 DEF RefreshReset, RefreshResetFails, RefreshFails, AfterRefresh
    <3>2. \A d \in Callers : ~PastFreeze(d)'
      <4>1. \A d \in Callers \ {c} : ~PastFreeze(d)
        BY <2>1 DEF Inv, WriterInv, LockOK, InRefresh, PastFreeze
      <4> QED BY <1>q, <3>1, <4>1 DEF PastFreeze
    <3> QED BY <2>3, <3>2 DEF LogOK, AllCovered
  <2>6. AcceptedOK'
    <3>1. AllCovered(Accepted \ overtaken, Published)
      BY <1>f, <2>1, ResetSafe
    <3>2. AllCovered(Accepted' \ overtaken', Published')
      BY <1>a, <1>f, <1>p, <3>1
    <3>3. AllCovered((Accepted \ overtaken)', (Published \cup (LogRecords \ overtaken))')
      BY <3>2, CoverMonotone
    <3>4. begun \subseteq Accepted
      BY DEF Inv, WriterInv, AcceptedOK, Accepted
    <3>5. AllCovered(promised \ overtaken, Published)
      BY DEF Inv, WriterInv, AcceptedOK, RefreshedVisible
    <3>6. AllCovered(promised' \ overtaken', Published')
      BY <1>f, <1>p, <2>1, <3>1, <3>4, <3>5 DEF AllCovered
    <3> QED BY <2>1, <3>3, <3>6 DEF AcceptedOK, RefreshedVisible, AllCovered, CoveredBy
  <2> QED BY <2>4, <2>5, <2>6
<1> QED BY <1>1, <1>2

\* The worker moves an index from the queue to a published generation.
LEMMA WorkerActs ==
  ASSUME Inv, WorkerAction
  PROVE  ActiveOK' /\ LogOK' /\ AcceptedOK'
<1>0. TypeOK' /\ TypeOK
  BY TypeWorker DEF WorkerAction, CompactAction, Inv
<1>f. /\ up /\ mutex = NoThread
      /\ UNCHANGED <<wal, up, versions, active, buffered, req, acked, begun, promised, overtaken>>
      /\ \A q \in Producers : pc'[q] = pc[q] /\ pc[q] # "append"
      /\ \A c \in Callers : PastFreeze(c)' => PastFreeze(c)
  BY WorkerFrame, NobodyElse, ThreadsAssumption DEF disk, history, PastFreeze, Threads
<1>p. Published' = Published /\ AllCovered(Published, Published') /\ LogRecords' = LogRecords
  BY <1>0, <1>f, WorkerJob, SetTypes, CoverReflexive DEF LogRecords
<1>e. error' = error \/ (error' <=> (error \/ pc[Worker] = "failed"))
  BY DEF WorkerAction, CompactAction, WorkerTake, WorkerFlush, WorkerDone, Compact,
     CompactNothing, StickyError, flags
<1>g. ~error' => ~error
  BY <1>e
<1>1. ActiveOK'
  BY <1>f, <1>p, <1>g, ActiveFrame
<1>2. ~error' => AllCovered(Queued \cup snapshot, Published' \cup Queued' \cup snapshot')
  <2> HAVE ~error'
  <2>s. /\ Queued \in SUBSET Mutation /\ snapshot \in SUBSET Mutation
        /\ Published \in SUBSET Mutation
    BY <1>0, SetTypes
  <2>u. UNCHANGED frozen => Queued' = Queued
    BY DEF Queued
  <2>1. CASE WorkerTake
    <3>0. snapshot = {}
      BY <2>1 DEF WorkerTake, Inv, WriterInv, FlushOK
    <3>1. CASE frozen # <<>> /\ snapshot' = Head(frozen) /\ frozen' = Tail(frozen)
      <4>1. Queued \subseteq snapshot' \cup Queued'
        BY <1>0, <3>1, QueuedHead DEF TypeOK, BufferType
      <4> QED BY <2>s, <3>0, <4>1, CoverReflexive
    <3>2. CASE UNCHANGED <<snapshot, frozen>>
      BY <2>s, <2>u, <3>2, CoverReflexive
    <3> QED BY <2>1, <3>1, <3>2 DEF WorkerTake
  <2>2. CASE WorkerDone
    <3>1. pc[Worker] = "done" /\ frozen' = frozen
      BY <2>2 DEF WorkerDone, StickyError, buffer
    <3>2. AllCovered(snapshot, Published)
      BY <3>1 DEF Inv, WriterInv, FlushOK, Flushed
    <3>3. AllCovered(snapshot, Published' \cup Queued' \cup snapshot')
      BY <1>p, <3>2, CoverMonotone
    <3>4. AllCovered(Queued, Published' \cup Queued' \cup snapshot')
      BY <2>s, <2>u, <3>1, CoverReflexive
    <3> QED BY <3>3, <3>4, CoverUnion
  <2>3. CASE WorkerFlush \/ CompactAction
    <3>1. UNCHANGED <<snapshot, frozen>>
      BY <2>3 DEF WorkerFlush, CompactAction, Compact, CompactNothing, buffer, worker
    <3> QED BY <2>s, <2>u, <3>1, CoverReflexive
  <2> QED BY <2>1, <2>2, <2>3 DEF WorkerAction
<1>3. LogOK'
  <2>1. active \subseteq active' \cup Queued'
    BY <1>f
  <2> QED BY <1>0, <1>f, <1>p, <1>g, <1>2, <2>1, LogFrame
<1>4. AcceptedOK'
  <2>1. Accepted' \subseteq Accepted /\ begun' \subseteq acked'
    BY <1>f DEF Accepted, Inv, WriterInv, AcceptedOK
  <2> QED BY <1>0, <1>f, <1>p, <2>1, AcceptedFrame
<1> QED BY <1>1, <1>3, <1>4

\* A publication changes nothing but what is published, which grows newer.
LEMMA JobActs ==
  ASSUME Inv, JobStep \/ JobFault
  PROVE  ActiveOK' /\ LogOK' /\ AcceptedOK'
<1>0. TypeOK' /\ TypeOK
  BY TypeJob DEF Inv
<1>f. /\ up /\ UNCHANGED <<wal, up, versions, active, buffered, frozen, error, req, snapshot, acked,
                           begun, promised, overtaken>>
      /\ \A q \in Producers : pc'[q] = pc[q]
      /\ \A c \in Callers : PastFreeze(c)' => PastFreeze(c)
  BY JobFrame, ThreadFacts DEF buffer, flags, PastFreeze
<1>p. /\ AllCovered(Published, Published') /\ LogRecords' = LogRecords /\ Queued' = Queued
      /\ ~error' => ~error
  BY <1>f, JobFiles DEF LogRecords, Queued
<1>1. ActiveOK'
  BY <1>f, <1>p, ActiveFrame
<1>2. AllCovered(Queued \cup snapshot, Published' \cup Queued' \cup snapshot')
  BY <1>0, <1>f, <1>p, SetTypes, CoverReflexive
<1>3. LogOK'
  BY <1>0, <1>f, <1>p, <1>2, LogFrame
<1>4. AcceptedOK'
  <2>1. Accepted' \subseteq Accepted /\ begun' \subseteq acked'
    BY <1>f DEF Accepted, Inv, WriterInv, AcceptedOK
  <2> QED BY <1>0, <1>f, <1>p, <2>1, AcceptedFrame
<1> QED BY <1>1, <1>3, <1>4

\* A view changes nothing.
LEMMA ViewActs ==
  ASSUME Inv, NEW r \in Readers, ViewAction(r)
  PROVE  ActiveOK' /\ LogOK' /\ AcceptedOK'
<1>0. TypeOK' /\ TypeOK
  BY TypeView DEF ViewAction, Inv
<1>f. /\ up /\ UNCHANGED <<wal, up, versions, active, buffered, frozen, error, req, snapshot, acked,
                           begun, promised, overtaken>>
      /\ UNCHANGED <<segs, manifests, current>>
      /\ \A q \in Producers : pc'[q] = pc[q]
      /\ \A c \in Callers : PastFreeze(c)' => PastFreeze(c)
  BY ViewFrame, ThreadFacts DEF disk, buffer, flags, worker, history, PastFreeze
<1>p. /\ AllCovered(Published, Published') /\ LogRecords' = LogRecords /\ Queued' = Queued
      /\ ~error' => ~error
  BY <1>0, <1>f, FilesSame, SetTypes, CoverReflexive DEF LogRecords, Queued
<1>1. ActiveOK'
  BY <1>f, <1>p, ActiveFrame
<1>2. AllCovered(Queued \cup snapshot, Published' \cup Queued' \cup snapshot')
  BY <1>0, <1>f, <1>p, SetTypes, CoverReflexive
<1>3. LogOK'
  BY <1>0, <1>f, <1>p, <1>2, LogFrame
<1>4. AcceptedOK'
  <2>1. Accepted' \subseteq Accepted /\ begun' \subseteq acked'
    BY <1>f DEF Accepted, Inv, WriterInv, AcceptedOK
  <2> QED BY <1>0, <1>f, <1>p, <2>1, AcceptedFrame
<1> QED BY <1>1, <1>3, <1>4

-----------------------------------------------------------------------------
(* Process death and open                                                  *)

\* The end of the process.
LEMMA HaltInv ==
  ASSUME Inv, HaltAction
  PROVE  WriterInv' /\ Published' = Published
<1>0. TypeOK' /\ TypeOK
  BY TypeStop DEF HaltAction, Inv
<1>1. Halt
  BY DEF HaltAction, Crash, CloseJoin, CompactOverrun
<1>u. up
  BY DEF HaltAction, Crash, CloseJoin, CompactOverrun, Runs
<1>2. /\ UNCHANGED <<segs, manifests, current, acked, promised, overtaken>> /\ begun' = {}
      /\ ~up' /\ active' = {} /\ frozen' = <<>> /\ snapshot' = {} /\ buffered' = 0
      /\ ~busy' /\ ~refreshing' /\ ~error' /\ mutex' = NoThread /\ job' = NoJob
      /\ pc' = [t \in Threads |-> IF t = Worker THEN "wait" ELSE "idle"]
  BY <1>1 DEF Halt
<1>3. /\ pc'[Worker] = "wait" /\ \A t \in Threads \ {Worker} : pc'[t] = "idle"
      /\ \A q \in Producers : pc'[q] = "idle"
      /\ \A c \in Callers : pc'[c] = "idle"
  BY <1>2, ThreadFacts
<1>4. Published' = Published /\ (CurrentOpens' <=> CurrentOpens)
      /\ ManifestSegments(current)' = ManifestSegments(current)
  BY <1>2, FilesSame
<1>j. job'.stage = "free"
  BY <1>2 DEF NoJob
<1>5. DownOK' /\ LockOK' /\ JobOK' /\ FlushOK'
  <2>1. DownOK'
    BY <1>2, <1>3, <1>j DEF DownOK
  <2>2. LockOK'
    BY <1>3 DEF LockOK, InRefresh
  <2>3. JobOK' /\ FlushOK'
    BY <1>2, <1>3, <1>j DEF JobOK, FlushOK, Flushed
  <2> QED BY <2>1, <2>2, <2>3
<1>6. GenerationOK'
  BY <1>2, <1>4 DEF Inv, WriterInv, GenerationOK
<1>7. ActiveOK' /\ LogOK'
  BY <1>2 DEF ActiveOK, LogOK
<1>8. AcceptedOK'
  <2>1. Accepted' \subseteq Accepted /\ acked' = acked
    BY <1>2, <1>3 DEF Accepted
  <2>2. AllCovered(Published, Published')
    BY <1>0, <1>4, SetTypes, CoverReflexive
  <2>3. CASE LogRecords \subseteq LogRecords'
    BY <1>0, <1>2, <2>1, <2>2, <2>3, AcceptedFrame
  <2>4. ASSUME NEW c \in Callers, pc[c] = "reset" PROVE AcceptedOK'
    <3>1. AllCovered(Accepted \ overtaken, Published)
      BY <1>u, <2>4, ResetSafe
    <3>2. AllCovered((Accepted \ overtaken)', Published')
      BY <1>2, <1>4, <2>1, <3>1 DEF AllCovered
    <3>3. AllCovered((Accepted \ overtaken)', (Published \cup (LogRecords \ overtaken))')
      BY <3>2, CoverMonotone
    <3>4. AllCovered(promised' \ overtaken', Published')
      BY <1>2, <1>4 DEF Inv, WriterInv, AcceptedOK, RefreshedVisible
    <3> QED BY <1>2, <3>3, <3>4 DEF AcceptedOK, RefreshedVisible, AllCovered, CoveredBy
  <2>5. LogRecords \subseteq LogRecords' \/ \E c \in Callers : pc[c] = "reset"
    <3>1. \/ wal' = wal \/ \E k : wal' = Append(wal, k)
          \/ \E c \in Callers : pc[c] = "reset"
      BY DEF HaltAction, Crash, CloseJoin, CompactOverrun
    <3>2. wal' = wal => LogRecords' = LogRecords
      BY DEF LogRecords
    <3>3. wal \in Seq(Mutation)
      BY <1>0 DEF TypeOK, DiskType
    <3> QED BY <3>1, <3>2, <3>3, LogAppend
  <2> QED BY <2>3, <2>4, <2>5
<1> QED BY <1>4, <1>5, <1>6, <1>7, <1>8 DEF WriterInv

\* Replay brings every record of the log back that is not published.
LEMMA ReplayCovers ==
  ASSUME TypeOK
  PROVE  AllCovered(LogRecords, Published \cup {wal[i] : i \in Replayed})
<1> DEFINE R == {wal[i] : i \in Replayed}
<1>0. wal \in Seq(Mutation) /\ Len(wal) \in Nat
  BY DEF TypeOK, DiskType
<1> SUFFICES ASSUME NEW i \in 1..Len(wal), ~CoveredBy(wal[i], Published)
             PROVE  CoveredBy(wal[i], Published \cup R)
  BY DEF AllCovered, LogRecords, CoveredBy
<1> DEFINE Same == {j \in 1..Len(wal) : wal[j].id = wal[i].id}
           V == {wal[j].version : j \in Same}
<1>m. \A j \in 1..Len(wal) : wal[j] \in Mutation /\ wal[j].version \in Nat
                             /\ wal[j].version \in Versions
  BY <1>0, MutationFields
<1>1. V \in SUBSET Nat /\ V \subseteq Versions /\ wal[i].version \in V
  BY <1>m
<1>2. IsFiniteSet(V)
  BY <1>1, RequestsAssumption, FS_Subset
<1>3. PICK v \in V : \A w \in V : w <= v
  <2> HIDE DEF V
  <2> QED BY <1>1, <1>2, FiniteMax
<1> DEFINE Top == {j \in Same : wal[j].version = v}
<1>4. Top \in SUBSET Nat /\ Top # {}
  <2>1. \E j \in Same : wal[j].version = v
    BY <1>3
  <2> QED BY <2>1
<1>5. PICK j \in Top : \A k \in Top : j <= k
  <2> HIDE DEF Top
  <2> QED BY <1>4, NatMin
<1>6. /\ j \in 1..Len(wal) /\ wal[j].id = wal[i].id /\ wal[j].version = v
      /\ wal[i].version <= v /\ v \in Nat /\ wal[i].version \in Nat
  BY <1>1, <1>3, <1>5
<1>7. ~CoveredBy(wal[j], Published)
  <2> SUFFICES ASSUME CoveredBy(wal[j], Published) PROVE FALSE
    OBVIOUS
  <2>1. PICK n \in Published : n.id = wal[j].id /\ n.version >= wal[j].version
    BY DEF CoveredBy
  <2>2. n.version \in Nat
    BY ReplayedFacts, MutationFields
  <2>3. n.id = wal[i].id /\ n.version >= wal[i].version
    BY <1>6, <2>1, <2>2
  <2> QED BY <2>3 DEF CoveredBy
<1>8. \A k \in 1..(j - 1) : wal[k].id = wal[j].id => wal[k].version < wal[j].version
  <2> TAKE k \in 1..(j - 1)
  <2> HAVE wal[k].id = wal[j].id
  <2>1. k \in Same /\ k < j
    BY <1>0, <1>6
  <2>2. wal[k].version <= v /\ k \notin Top /\ wal[k].version \in Nat
    <3>1. wal[k].version \in V
      BY <2>1
    <3>2. k \notin Top
      BY <1>5, <1>6, <2>1
    <3> QED BY <1>m, <1>3, <2>1, <3>1, <3>2
  <2> QED BY <1>6, <2>1, <2>2
<1>9. j \in Replayed
  BY <1>6, <1>7, <1>8 DEF Replayed
<1>10. wal[j] \in R
  BY <1>9
<1> HIDE DEF R
<1> QED BY <1>6, <1>10 DEF CoveredBy

\* IndexWriter::open restores the invariant of a running writer.
LEMMA OpenInv ==
  ASSUME Inv, Open
  PROVE  WriterInv' /\ Published' = Published
<1> DEFINE R == {wal[i] : i \in Replayed}
<1>0. TypeOK' /\ TypeOK
  BY TypeOpen DEF Inv
<1>1. /\ ~up /\ up' /\ CurrentOpens
      /\ UNCHANGED <<wal, current, frozen, busy, refreshing, error, pc, mutex, req, snapshot, job,
                     acked, begun, promised, overtaken>>
      /\ active' = Latest(R) /\ versions' = Latest(Published \cup R)
      /\ buffered' = Cardinality(Replayed)
      /\ manifest'.generation = current /\ manifest'.segments = ManifestSegments(current)
      /\ nextSeg' = NextId(ManifestSegments(current))
  BY DEF Open, Openable, flags, threads, history
<1>2. /\ active = {} /\ frozen = <<>> /\ snapshot = {} /\ ~busy /\ ~refreshing /\ ~error
      /\ mutex = NoThread /\ job.stage = "free" /\ pc[Worker] = "wait"
      /\ \A t \in Threads \ {Worker} : pc[t] = "idle"
  BY <1>1 DEF Inv, WriterInv, DownOK
<1>3. (\A q \in Producers : pc'[q] = "idle") /\ (\A c \in Callers : pc'[c] = "idle")
      /\ pc'[Worker] = "wait"
  BY <1>1, <1>2, ThreadFacts
<1>4. CurrentOpens' /\ Published' = Published
      /\ ManifestSegments(current)' = ManifestSegments(current)
  <2>1. /\ segs' \subseteq segs /\ manifests' \subseteq manifests
        /\ \A f \in segs : f.id \in ManifestSegments(current) => f \in segs'
        /\ \A x \in manifests : x.generation = current => x \in manifests'
    BY DEF Open, Retained
  <2> QED BY <1>1, <2>1, FilesRemoved
<1>s. /\ R \in SUBSET Mutation /\ Published \in SUBSET Mutation /\ LogRecords \in SUBSET Mutation
      /\ Published \cup R \in SUBSET Mutation
      /\ (Cardinality(Replayed) = 0 <=> Replayed = {})
      /\ LogRecords' = LogRecords
  BY <1>0, <1>1, ReplayedFacts, SetTypes DEF LogRecords
<1>c. AllCovered(LogRecords, Published \cup R)
  BY <1>0, ReplayCovers
<1>r. Replayed # {} => R # {}
  OBVIOUS
<1>z. Replayed = {} => R = {}
  OBVIOUS
<1> HIDE DEF R
<1>l. /\ active' \subseteq R /\ AllCovered(R, active')
      /\ AllCovered(Published \cup R, versions')
  BY <1>1, <1>s, LatestCovers
<1>5. DownOK' /\ LockOK' /\ JobOK'
  BY <1>1, <1>2, <1>3 DEF DownOK, LockOK, JobOK, InRefresh
<1>6. GenerationOK'
  <2>1. ManifestSegments(current) \in SUBSET Nat /\ IsFiniteSet(ManifestSegments(current))
    BY <1>0, FileTypes DEF Inv, WriterInv, GenerationOK
  <2>2. \A s \in ManifestSegments(current) : s < nextSeg'
    BY <1>1, <2>1, NextIdFresh
  <2>3. current \in Nat /\ current' = current
    BY <1>0, <1>1 DEF TypeOK, DiskType
  <2> QED BY <1>1, <1>4, <2>1, <2>2, <2>3 DEF GenerationOK
<1>7. FlushOK'
  BY <1>1, <1>2, <1>3 DEF FlushOK, Flushed
<1>8. ActiveOK'
  <2>1. buffered' # 0 => active' # {}
    <3>1. R # {} => active' # {}
      BY <1>l DEF AllCovered, CoveredBy
    <3> QED BY <1>1, <1>s, <1>r, <3>1
  <2>2. buffered' = 0 => active' = {}
    BY <1>1, <1>s, <1>z, <1>l
  <2>3. AllCovered(LogRecords', versions')
    <3>1. versions' \in SUBSET Mutation
      BY <1>0, SetTypesNext
    <3> QED BY <1>c, <1>l, <1>s, <3>1, CoverTransitive
  <2>4. \A m \in active' : CoveredBy(m, versions')
    BY <1>l DEF AllCovered
  <2> QED BY <2>1, <2>2, <2>3, <2>4 DEF ActiveOK
<1>9. LogOK'
  <2>1. AllCovered(LogRecords, Published \cup active')
    <3>1. AllCovered(R, Published \cup active')
      BY <1>l, CoverMonotone
    <3>2. AllCovered(Published, Published \cup active')
      BY <1>s, CoverReflexive
    <3>3. AllCovered(Published \cup R, Published \cup active') /\ active' \in SUBSET Mutation
      BY <1>0, <3>1, <3>2, CoverUnion, SetTypesNext
    <3> QED BY <1>c, <1>s, <3>3, CoverTransitive
  <2>2. AllCovered(LogRecords', (Published \cup active \cup Queued \cup snapshot)')
    BY <1>4, <1>s, <2>1, CoverMonotone
  <2> QED BY <1>3, <2>2 DEF LogOK, PastFreeze
<1>10. AcceptedOK'
  <2>1. Accepted' \subseteq Accepted /\ begun' \subseteq acked'
    BY <1>1 DEF Accepted, Inv, WriterInv, AcceptedOK
  <2>2. AllCovered(Published, Published')
    BY <1>4, <1>s, CoverReflexive
  <2> QED BY <1>0, <1>1, <1>s, <2>1, <2>2, AcceptedFrame
<1> QED BY <1>4, <1>5, <1>6, <1>7, <1>8, <1>9, <1>10 DEF WriterInv

-----------------------------------------------------------------------------
(* The theorems                                                            *)

\* An empty index directory satisfies the invariant.
LEMMA InitInv ==
  ASSUME Init
  PROVE  Inv
<1>1. /\ wal = <<>> /\ frozen = <<>> /\ segs = {} /\ manifests = {} /\ current = 0 /\ ~up
      /\ job = NoJob /\ manifest = NoManifest /\ nextSeg = 1 /\ snapshot = {} /\ active = {}
      /\ versions = {} /\ buffered = 0 /\ torn = "no"
      /\ pc = [t \in Threads |-> IF t = Worker THEN "wait" ELSE "idle"]
      /\ acked = {} /\ begun = {} /\ promised = {} /\ overtaken = {} /\ faults = 0
  BY DEF Init
<1>2. TypeOK
  <2>1. DiskType
    BY <1>1 DEF DiskType
  <2>2. BufferType
    BY <1>1 DEF BufferType
  <2>3. FlagType
    BY DEF Init, FlagType
  <2>4. ThreadType
    BY AnyRequestType DEF Init, ThreadType, NoView, AllOperations, ProducerStates, WorkerStates
  <2>5. WorkerType
    BY <1>1 DEF WorkerType, NoJob, NoManifest, Generation, Stages
  <2>6. HistoryType
    BY <1>1 DEF HistoryType
  <2> QED BY <2>1, <2>2, <2>3, <2>4, <2>5, <2>6 DEF TypeOK
<1>3. ManifestSegments(current) = {} /\ CurrentOpens
  BY <1>1 DEF ManifestSegments, CurrentOpens
<1>4. /\ pc[Worker] = "wait" /\ \A t \in Threads \ {Worker} : pc[t] = "idle"
      /\ \A q \in Producers : pc[q] = "idle"
      /\ \A c \in Callers : pc[c] = "idle"
  BY <1>1, ThreadFacts
<1>5. job.stage = "free"
  BY <1>1 DEF NoJob
<1>6. GenerationOK
  BY <1>1, <1>3, FS_EmptySet DEF GenerationOK
<1>7. DownOK /\ LockOK /\ JobOK /\ FlushOK
  BY <1>1, <1>4, <1>5 DEF Init, DownOK, LockOK, InRefresh, JobOK, FlushOK, Flushed
<1>8. ActiveOK /\ LogOK
  BY <1>1 DEF ActiveOK, LogOK
<1>9. AcceptedOK
  BY <1>1, <1>4 DEF AcceptedOK, Accepted, RefreshedVisible, AllCovered
<1> QED BY <1>2, <1>6, <1>7, <1>8, <1>9 DEF Inv, WriterInv

\* Every step keeps the invariant, and what is published only grows newer.
LEMMA NextInv ==
  ASSUME Inv, [Next]_vars
  PROVE  Inv' /\ AllCovered(Published, Published') /\ current' >= current
<1>0. TypeOK' /\ current \in Nat /\ Published \in SUBSET Mutation
  BY TypeStep, SetTypes DEF Inv, TypeOK, DiskType
<1>c. Published' = Published => AllCovered(Published, Published')
  BY <1>0, CoverReflexive
<1>1. CASE UNCHANGED vars
  <2>0. UNCHANGED <<segs, manifests, current, wal, frozen, pc, up, job, snapshot, manifest, nextSeg,
                    busy, refreshing, error, mutex, req, versions, active, buffered, acked,
                    begun, promised, overtaken>>
    BY <1>1 DEF vars, disk, buffer, flags, threads, worker, history
  <2>1. GenerationOK' /\ JobOK' /\ FlushOK' /\ Published' = Published
    BY <2>0, PublicationFrame DEF pubState
  <2>2. LogRecords' = LogRecords /\ Queued' = Queued
    BY <2>0 DEF LogRecords, Queued
  <2>3. DownOK' /\ LockOK'
    <3>1. DownOK'
      BY <2>0 DEF Inv, WriterInv, DownOK
    <3>2. LockOK'
      BY <2>0, LockOthers
    <3> QED BY <3>1, <3>2
  <2>4. ActiveOK'
    BY <2>0, <2>2, ActiveFrame
  <2>5. LogOK'
    <3>1. AllCovered(Queued \cup snapshot, Published' \cup Queued' \cup snapshot')
      BY <2>0, <2>2, SetTypes, CoverReflexive DEF Inv
    <3>2. \A c \in Callers : PastFreeze(c)' => PastFreeze(c)
      BY <2>0 DEF PastFreeze
    <3> QED BY <1>0, <1>c, <2>0, <2>1, <2>2, <3>1, <3>2, LogFrame
  <2>6. AcceptedOK'
    <3>1. Accepted' = Accepted /\ begun' \subseteq acked'
      BY <2>0 DEF Accepted, Inv, WriterInv, AcceptedOK
    <3> QED BY <1>0, <1>c, <2>0, <2>1, <2>2, <3>1, AcceptedFrame
  <2> QED BY <1>0, <1>c, <2>0, <2>1, <2>3, <2>4, <2>5, <2>6 DEF Inv, WriterInv
<1>2. ASSUME NEW p \in Producers, PutAction(p)
      PROVE  Inv' /\ AllCovered(Published, Published') /\ current' >= current
  <2>1. /\ up /\ UNCHANGED pubState /\ pc'[Worker] = pc[Worker]
        /\ \A c \in Callers : pc'[c] = pc[c]
    BY <1>2, PutFrame, ThreadFacts
  <2>2. GenerationOK' /\ JobOK' /\ FlushOK' /\ Published' = Published
    BY <2>1, PublicationFrame
  <2>3. DownOK' /\ LockOK'
    BY <1>2, <2>1, LockPut DEF DownOK, pubState
  <2>4. ActiveOK' /\ LogOK' /\ AcceptedOK'
    BY <1>2, PutAdmits, PutLogs, PutFails, PutRests
  <2> QED BY <1>0, <1>c, <2>1, <2>2, <2>3, <2>4 DEF Inv, WriterInv, pubState
<1>3. ASSUME NEW c \in Callers, RefreshAction(c)
      PROVE  Inv' /\ AllCovered(Published, Published') /\ current' >= current
  <2>1. /\ up /\ UNCHANGED pubState /\ pc'[Worker] = pc[Worker]
        /\ \A d \in Callers : pc[d] = "publishing" => pc'[d] = "publishing"
    BY <1>3, RefreshFrame, ThreadFacts
  <2>2. GenerationOK' /\ JobOK' /\ FlushOK' /\ Published' = Published
    BY <2>1, PublicationFrame
  <2>3. DownOK' /\ LockOK'
    BY <1>3, <2>1, LockRefresh DEF DownOK, pubState
  <2>4. ActiveOK' /\ LogOK' /\ AcceptedOK'
    BY <1>3, RefreshActs
  <2> QED BY <1>0, <1>c, <2>1, <2>2, <2>3, <2>4 DEF Inv, WriterInv, pubState
<1>4. ASSUME NEW r \in Readers, ViewAction(r)
      PROVE  Inv' /\ AllCovered(Published, Published') /\ current' >= current
  <2>1. /\ up /\ UNCHANGED pubState /\ pc'[Worker] = pc[Worker] /\ mutex \in {NoThread, r}
        /\ UNCHANGED <<refreshing, req>>
        /\ \A c \in Callers : pc'[c] = pc[c]
        /\ \A q \in Producers : pc'[q] = pc[q]
    BY <1>4, ViewFrame, ThreadFacts DEF pubState, disk, flags, worker
  <2>2. GenerationOK' /\ JobOK' /\ FlushOK' /\ Published' = Published
    BY <2>1, PublicationFrame
  <2>3. DownOK' /\ LockOK'
    <3>1. mutex \notin Producers \cup Callers
      BY <2>1, ThreadFacts
    <3>2. LockOK'
      BY <2>1, <3>1, LockOthers
    <3> QED BY <2>1, <3>2 DEF DownOK, pubState
  <2>4. ActiveOK' /\ LogOK' /\ AcceptedOK'
    BY <1>4, ViewActs
  <2> QED BY <1>0, <1>c, <2>1, <2>2, <2>3, <2>4 DEF Inv, WriterInv, pubState
<1>5. CASE WorkerAction
  <2>1. /\ up /\ UNCHANGED <<up, current, refreshing, req>> /\ mutex = NoThread
        /\ \A q \in Producers : pc'[q] = pc[q]
        /\ \A c \in Callers : \/ pc'[c] = pc[c]
                              \/ pc[c] = "merge_loop" /\ pc'[c] \in {"publishing", "idle"}
    BY <1>5, WorkerFrame DEF disk
  <2>2. GenerationOK' /\ JobOK' /\ FlushOK' /\ Published' = Published
    BY <1>5, WorkerJob
  <2>3. DownOK' /\ LockOK'
    <3>1. mutex \notin Producers \cup Callers
      BY <2>1, ThreadFacts
    <3>2. LockOK'
      BY <2>1, <3>1, LockOthers
    <3> QED BY <2>1, <3>2 DEF DownOK
  <2>4. ActiveOK' /\ LogOK' /\ AcceptedOK'
    BY <1>5, WorkerActs
  <2> QED BY <1>0, <1>c, <2>1, <2>2, <2>3, <2>4 DEF Inv, WriterInv
<1>6. CASE JobStep \/ JobFault
  <2>1. /\ up /\ UNCHANGED <<up, mutex, error, busy, versions, active, frozen, refreshing, req>>
        /\ \A q \in Producers : pc'[q] = pc[q]
        /\ \A c \in Callers :
             \/ pc'[c] = pc[c]
             \/ /\ pc[c] \in {"merge_loop", "publishing"}
                /\ pc'[c] \in {"publishing", "done", "failed", "merge", "merge_loop", "idle"}
    BY <1>6, JobFrame, ThreadFacts DEF buffer, flags
  <2>2. GenerationOK' /\ JobOK' /\ FlushOK' /\ AllCovered(Published, Published')
    BY <1>6, JobJob, JobFlush, JobFiles
  <2>3. DownOK' /\ LockOK'
    <3>2. LockOK'
      BY <2>1, LockOthers
    <3> QED BY <2>1, <3>2 DEF DownOK
  <2>4. ActiveOK' /\ LogOK' /\ AcceptedOK'
    BY <1>6, JobActs
  <2>5. current' >= current
    <3>1. CASE job.stage = "current" /\ current' = job.next.generation /\ UNCHANGED <<segs, manifests>>
      <4>1. current' = current + 1
        BY <2>1, <3>1, CurrentReplaced
      <4> QED BY <1>0, <4>1
    <3> QED BY <1>0, <1>6, <3>1, JobFiles
  <2> QED BY <1>0, <2>2, <2>3, <2>4, <2>5 DEF Inv, WriterInv
<1>7. CASE HaltAction
  <2>1. current' = current
    BY <1>7 DEF HaltAction, Crash, CloseJoin, CompactOverrun, Halt
  <2> QED BY <1>0, <1>c, <1>7, <2>1, HaltInv DEF Inv
<1>8. CASE Open
  <2>1. current' = current
    BY <1>8 DEF Open
  <2> QED BY <1>0, <1>c, <1>8, <2>1, OpenInv DEF Inv
<1> QED BY <1>1, <1>2, <1>3, <1>4, <1>5, <1>6, <1>7, <1>8, NextActions

\* TypeOK /\ WriterInv always holds.
THEOREM Invariance == Spec => []Inv
<1>1. Init => Inv
  BY InitInv
<1>2. Inv /\ [Next]_vars => Inv'
  BY NextInv
<1> QED BY <1>1, <1>2, PTL DEF Spec

\* The variables of the writer keep their types: in particular no index is
\* frozen empty, whatever the interleaving of producers and refreshes.
THEOREM TypeCorrect == Spec => []TypeOK
<1>1. Inv => TypeOK
  BY DEF Inv
<1> QED BY <1>1, Invariance, PTL

\* Where a mutation can be between put, log, queue, worker and segments, and
\* what each stage of a publication has established, holds in every state.
THEOREM WriterInvariance == Spec => []WriterInv
<1>1. Inv => WriterInv
  BY DEF Inv
<1> QED BY <1>1, Invariance, PTL

\* A mutation whose put returned success is published or in the log at every
\* moment, so that a crash does not lose it, unless its put overtook a refresh.
THEOREM Durability == Spec => []DurableUnlessOvertaken
<1>1. Inv => DurableUnlessOvertaken
  <2> SUFFICES ASSUME Inv PROVE DurableUnlessOvertaken
    OBVIOUS
  <2>1. AllCovered(Accepted \ overtaken, Published \cup (LogRecords \ overtaken))
    BY DEF Inv, WriterInv, AcceptedOK
  <2>2. acked \ overtaken \subseteq Accepted \ overtaken
    BY DEF Accepted
  <2>3. Published \cup (LogRecords \ overtaken) \subseteq Recovered
    BY DEF Recovered, LogRecords
  <2>4. AllCovered(acked \ overtaken, Recovered)
    BY <2>1, <2>2, <2>3, CoverMonotone
  <2> QED BY <2>4 DEF DurableUnlessOvertaken
<1> QED BY <1>1, Invariance, PTL

\* What a successful refresh promised is published, and stays published through
\* flushes, merges, reclamation, failures and restarts.
THEOREM Visibility == Spec => []RefreshedVisible
<1>1. Inv => RefreshedVisible
  BY DEF Inv, WriterInv, AcceptedOK
<1> QED BY <1>1, Invariance, PTL

\* CURRENT always names a generation whose manifest and segments are there:
\* neither reclamation nor a failed publication makes it unreadable.
THEOREM Readability == Spec => []CurrentOpens
<1>1. Inv => CurrentOpens
  BY DEF Inv, WriterInv, GenerationOK
<1> QED BY <1>1, Invariance, PTL

\* No step takes a published version back, and generations never decrease.
THEOREM Monotonicity == Spec => PublishedMonotone
<1>1. Inv /\ [Next]_vars => [AllCovered(Published, Published') /\ current' >= current]_vars
  BY NextInv
<1> QED BY <1>1, Invariance, PTL DEF Spec, PublishedMonotone

-----------------------------------------------------------------------------
(* What the readers see: ViewInv                                           *)

\* open_search_view is under way and holds the lock.
Viewing(r) == pc[r] \in {"view_manifest", "view_segments", "view_open", "view_failed"}

\* All that is published or may be.
Everything == Published \cup active \cup Queued \cup snapshot

\* One version of a document has one content, and versions_ covers all that
\* put could contradict.
UniqueOK ==
  /\ ~Conflict(Everything)
  /\ (up /\ ~error) => AllCovered(Published \cup Queued \cup snapshot, versions)

\* What a generation that is not yet published will consist of.
SourceOK ==
  job.stage \in {"segment", "manifest", "current"} =>
    /\ job.next.segments \ {job.id} \subseteq manifest.segments
    /\ (job.merge /\ manifest.generation = current) => job.docs \subseteq Published
    /\ job.stage # "segment" => SegmentDocs({job.id}) \subseteq job.docs

\* manifest_ falls behind CURRENT only inside a publication, or when one failed.
ManifestOK ==
  (up /\ faults = 0 /\ job.stage # "install") => manifest.generation = current

\* A generation that is open to readers: all its files are there, it shows
\* what refreshes promised, and no publication in progress is to touch it.
Kept(g) ==
  /\ g <= current
  /\ \E x \in manifests : x.generation = g
  /\ ManifestSegments(g) \subseteq FileIds
  /\ ~Conflict(SegmentDocs(ManifestSegments(g)))
  /\ AllCovered(promised \ overtaken, SegmentDocs(ManifestSegments(g)))
  /\ job.stage = "segment" => job.id \notin ManifestSegments(g)
  /\ job.stage = "reclaim" => g = current

\* The generation a reader opens is kept while the reader has the lock: a
\* publication may replace CURRENT meanwhile, but not begin to reclaim.
ViewOK ==
  \A r \in Readers :
    Viewing(r) =>
      /\ mutex = r
      /\ pc[r] # "view_failed"
      /\ Kept(view[r].generation)
      /\ pc[r] = "view_segments" => view[r].segments = ManifestSegments(view[r].generation)
      /\ pc[r] = "view_open" => AllCovered(promised \ overtaken, view[r].docs)

\* Only an append in progress, or one that failed, leaves a partial record.
TornOK ==
  /\ torn # "buried"
  /\ (up /\ ~error /\ \A p \in Producers : pc[p] # "append") => torn = "no"

ViewInv == UniqueOK /\ SourceOK /\ ManifestOK /\ ViewOK /\ TornOK

-----------------------------------------------------------------------------
(* One version, one content                                                *)

\* A part of a set without conflicts has none.
LEMMA ConflictSubset ==
  ASSUME NEW S, NEW T, S \subseteq T, ~Conflict(T)
  PROVE  ~Conflict(S)
BY DEF Conflict

\* A mutation that is newer than all that is known of its document contradicts
\* nothing.
LEMMA ConflictNewer ==
  ASSUME NEW S \in SUBSET Mutation, NEW V \in SUBSET Mutation, NEW m \in Mutation,
         AllCovered(S, V), ~CoveredBy(m, V), ~Conflict(S)
  PROVE  ~Conflict(S \cup {m})
<1>1. \A k \in S : ~(k.id = m.id /\ k.version = m.version)
  <2> SUFFICES ASSUME NEW k \in S, k.id = m.id, k.version = m.version PROVE FALSE
    OBVIOUS
  <2>1. PICK v \in V : v.id = k.id /\ v.version >= k.version
    BY DEF AllCovered, CoveredBy
  <2> QED BY <2>1 DEF CoveredBy
<1> QED BY <1>1 DEF Conflict

\* The winners of a replay contradict neither each other nor what is published.
LEMMA ConflictReplay ==
  ASSUME TypeOK, ~Conflict(Published)
  PROVE  ~Conflict(Published \cup {wal[i] : i \in Replayed})
<1>0. wal \in Seq(Mutation) /\ Len(wal) \in Nat
  BY DEF TypeOK, DiskType
<1>1. \A i \in Replayed : /\ i \in 1..Len(wal) /\ ~CoveredBy(wal[i], Published)
                          /\ wal[i] \in Mutation /\ wal[i].version \in Nat
                          /\ \A j \in 1..(i - 1) :
                               wal[j].id = wal[i].id => wal[j].version < wal[i].version
  BY <1>0, MutationFields DEF Replayed
<1>2. ASSUME NEW i \in Replayed, NEW n \in Published
      PROVE  ~(n.id = wal[i].id /\ n.version = wal[i].version)
  BY <1>1 DEF CoveredBy
<1>3. ASSUME NEW i \in Replayed, NEW j \in Replayed,
             wal[i].id = wal[j].id, wal[i].version = wal[j].version
      PROVE  i = j
  <2>1. i \in Nat /\ j \in Nat /\ i >= 1 /\ j >= 1
    BY <1>0, <1>1
  <2>2. ~(j < i)
    <3> SUFFICES ASSUME j < i PROVE FALSE
      OBVIOUS
    <3>1. j \in 1..(i - 1)
      BY <2>1
    <3> QED BY <1>1, <1>3, <3>1
  <2>3. ~(i < j)
    <3> SUFFICES ASSUME i < j PROVE FALSE
      OBVIOUS
    <3>1. i \in 1..(j - 1)
      BY <2>1
    <3> QED BY <1>1, <1>3, <3>1
  <2> QED BY <2>1, <2>2, <2>3
<1> DEFINE R == {wal[i] : i \in Replayed}
<1> SUFFICES ASSUME NEW m \in Published \cup R, NEW n \in Published \cup R,
                    m.id = n.id, m.version = n.version
             PROVE  m.deleted = n.deleted
  BY DEF Conflict
<1>4. CASE m \in Published /\ n \in Published
  BY <1>4 DEF Conflict
<1>5. CASE m \in R /\ n \in R
  <2>1. PICK i \in Replayed : m = wal[i]
    BY <1>5
  <2>2. PICK j \in Replayed : n = wal[j]
    BY <1>5
  <2> QED BY <1>3, <2>1, <2>2
<1>6. CASE m \in R /\ n \in Published
  <2>1. PICK i \in Replayed : m = wal[i]
    BY <1>6
  <2> QED BY <1>2, <1>6, <2>1
<1>7. CASE m \in Published /\ n \in R
  <2>1. PICK i \in Replayed : n = wal[i]
    BY <1>7
  <2> QED BY <1>2, <1>7, <2>1
<1> QED BY <1>4, <1>5, <1>6, <1>7

\* A step that publishes nothing from elsewhere and keeps versions_.
LEMMA UniqueFrame ==
  ASSUME Inv, UniqueOK, TypeOK', Everything' \subseteq Everything,
         (up' /\ ~error') =>
           /\ up /\ ~error /\ versions' = versions
           /\ \/ (Published \cup Queued \cup snapshot)' \subseteq Published \cup Queued \cup snapshot
              \/ AllCovered(active, versions)
  PROVE  UniqueOK'
<1>1. ~Conflict(Everything)'
  <2>1. ~Conflict(Everything')
    BY ConflictSubset DEF UniqueOK
  <2> QED BY <2>1 DEF Conflict
<1>2. ASSUME up', ~error'
      PROVE  AllCovered((Published \cup Queued \cup snapshot)', versions')
  <2>1. AllCovered(Published \cup Queued \cup snapshot, versions) /\ versions' = versions
    BY <1>2 DEF UniqueOK
  <2>2. CASE (Published \cup Queued \cup snapshot)' \subseteq Published \cup Queued \cup snapshot
    BY <2>1, <2>2, CoverMonotone
  <2>3. CASE AllCovered(active, versions)
    <3>1. AllCovered(Everything, versions)
      BY <2>1, <2>3 DEF Everything, AllCovered
    <3>2. (Published \cup Queued \cup snapshot)' \subseteq Everything
      BY DEF Everything
    <3> QED BY <2>1, <3>1, <3>2, CoverMonotone
  <2> QED BY <1>2, <2>2, <2>3
<1>3. (AllCovered(Published \cup Queued \cup snapshot, versions))'
        <=> AllCovered((Published \cup Queued \cup snapshot)', versions')
  BY DEF AllCovered, CoveredBy
<1> QED BY <1>1, <1>2, <1>3 DEF UniqueOK

-----------------------------------------------------------------------------
(* The steps of the threads                                                *)

\* When no reader has the lock, no view is being opened.
LEMMA NobodyViews ==
  ASSUME ViewOK, mutex \notin Readers, \A r \in Readers : pc'[r] = pc[r]
  PROVE  ViewOK'
<1> SUFFICES ASSUME NEW r \in Readers, Viewing(r)' PROVE FALSE
  BY DEF ViewOK
<1>1. Viewing(r)
  BY DEF Viewing
<1> QED BY <1>1 DEF ViewOK

\* A step that leaves the files and the publication alone.
LEMMA SourceFrame ==
  ASSUME SourceOK, UNCHANGED <<segs, manifests, current, job, manifest, snapshot>>
  PROVE  SourceOK'
BY FilesSame DEF SourceOK

\* A step of put may begin a record or end one.
LEMMA PutTorn ==
  ASSUME Inv, TornOK, NEW p \in Producers, PutAction(p)
  PROVE  TornOK' /\ (faults' = 0 => faults = 0)
<1>0. /\ up /\ mutex \in {NoThread, p} /\ UNCHANGED up
      /\ \A t \in Threads \ {p} : pc'[t] = pc[t]
  BY PutFrame DEF pubState
<1>1. torn \in {"no", "tail", "buried"} /\ faults \in Nat /\ error \in BOOLEAN
  BY DEF Inv, TypeOK, DiskType, HistoryType, FlagType
<1>2. /\ \A q \in Producers \ {p} : pc[q] # "append"
      /\ mutex = NoThread => pc[p] # "append"
  BY <1>0, OnlyLogger
<1>t. pc \in [Threads -> ProducerStates \cup CallerStates \cup ReaderStates \cup WorkerStates]
      /\ p \in Threads
  BY ThreadFacts DEF Inv, TypeOK, ThreadType
<1>3. CASE PutLogged(p)
  <2>1. torn' = IF torn = "tail" THEN "no" ELSE torn
    BY <1>3 DEF PutLogged
  <2>2. UNCHANGED <<error, faults>>
    BY <1>3 DEF PutLogged, flags
  <2> QED BY <1>1, <2>1, <2>2 DEF TornOK
<1>4. CASE PutLogFails(p)
  <2>1. error' /\ faults' = faults + 1
    BY <1>4 DEF PutLogFails, StickyError
  <2>2. torn' \in {"no", torn}
    BY <1>4 DEF PutLogFails
  <2> QED BY <1>1, <2>1, <2>2 DEF TornOK
<1>5. CASE ~PutLogged(p) /\ ~PutLogFails(p)
  <2>1. /\ mutex = NoThread /\ UNCHANGED <<error, faults>>
        /\ \/ torn' = torn
           \/ torn' = TornAppend /\ ~error /\ pc'[p] = "append"
    <3>1. ASSUME NEW m, PutEnter(p, m), Runs(p)
          PROVE  /\ mutex = NoThread /\ UNCHANGED <<error, faults>>
                 /\ \/ torn' = torn
                    \/ torn' = TornAppend /\ ~error /\ pc'[p] = "append"
      BY <1>t, <3>1 DEF PutEnter, PutProceed, PutReturns, SleepAt, Runs, flags, history
    <3>2. CASE PutAdmitted(p)
      BY <1>t, <3>2 DEF PutAdmitted, PutProceed, PutReturns, SleepAt, Runs, flags, history
    <3>3. CASE PutFull(p)
      BY <1>t, <3>3 DEF PutFull, Runs, flags, history, disk
    <3> QED BY <1>5, <3>1, <3>2, <3>3 DEF PutAction, PutStep, PutCall, PutReenter
  <2>2. \A q \in Producers : pc[q] # "append"
    BY <1>2, <2>1
  <2>3. ~error => torn = "no"
    BY <1>0, <2>2 DEF TornOK
  <2>4. CASE torn' = torn
    BY <2>1, <2>3, <2>4 DEF TornOK
  <2>5. CASE torn' = TornAppend /\ ~error /\ pc'[p] = "append"
    BY <2>1, <2>3, <2>5 DEF TornOK, TornAppend
  <2> QED BY <2>1, <2>4, <2>5
<1> QED BY <1>3, <1>4, <1>5

\* put takes a document only when versions_ has nothing to contradict it.
LEMMA PutUnique ==
  ASSUME Inv, Inv', UniqueOK, NEW p \in Producers, PutAction(p)
  PROVE  UniqueOK'
<1>0. /\ up /\ mutex \in {NoThread, p} /\ UNCHANGED <<segs, manifests, current, up, snapshot>>
      /\ \A t \in Threads \ {p} : pc'[t] = pc[t]
  BY PutFrame DEF pubState
<1>1. Published' = Published
  BY <1>0, FilesSame
<1>2. TypeOK /\ TypeOK'
  BY DEF Inv
<1>3. /\ active \in SUBSET Mutation /\ versions \in SUBSET Mutation /\ Queued \in SUBSET Mutation
      /\ Published \in SUBSET Mutation /\ snapshot \in SUBSET Mutation
      /\ versions' \in SUBSET Mutation
  BY <1>2, SetTypes, SetTypesNext
<1>4. /\ \A q \in Producers \ {p} : pc[q] # "append"
      /\ mutex = NoThread => pc[p] # "append"
  BY <1>0, OnlyLogger
<1>5. CASE pc'[p] = "append"
  <2> DEFINE k == req'[p]
  <2>1. /\ mutex = NoThread /\ ~error /\ UNCHANGED <<versions, error>>
        /\ ~CoveredBy(k, versions) /\ k \in Mutation
        /\ \/ active' = PutDocument(active, k) /\ UNCHANGED frozen
           \/ FreezeActive /\ active' = PutDocument(ActiveAfterFreeze, k)
    BY <1>5, PutProceeds
  <2>2. \A q \in Producers : pc[q] # "append"
    BY <1>4, <2>1
  <2>3. AllCovered(Everything, versions)
    <3>1. AllCovered(active, versions)
      BY <1>0, <2>1, <2>2, ActiveCovered
    <3>2. AllCovered(Published \cup Queued \cup snapshot, versions)
      BY <1>0, <2>1 DEF UniqueOK
    <3> QED BY <3>1, <3>2 DEF Everything, AllCovered
  <2>4. active' \subseteq active \cup {k} /\ Queued' \subseteq Queued \cup active
    <3>1. CASE active' = PutDocument(active, k) /\ UNCHANGED frozen
      BY <3>1 DEF PutDocument, Queued
    <3>2. CASE FreezeActive /\ active' = PutDocument(ActiveAfterFreeze, k)
      <4>1. ActiveAfterFreeze = {} /\ Queued' = Queued \cup active
        BY <2>1, <2>2, <3>2, Frozen
      <4> QED BY <3>2, <4>1 DEF PutDocument
    <3> QED BY <2>1, <3>1, <3>2
  <2>5. Everything' \subseteq Everything \cup {k}
        /\ (Published \cup Queued \cup snapshot)' \subseteq Everything
    BY <1>0, <1>1, <2>4 DEF Everything
  <2>6. ~Conflict(Everything \cup {k})
    <3>1. Everything \in SUBSET Mutation
      BY <1>3 DEF Everything
    <3> QED BY <1>3, <2>1, <2>3, <3>1, ConflictNewer DEF UniqueOK
  <2>7. ~Conflict(Everything')
    BY <2>5, <2>6, ConflictSubset
  <2>8. AllCovered((Published \cup Queued \cup snapshot)', versions')
    BY <2>1, <2>3, <2>5, CoverMonotone
  <2> QED BY <2>7, <2>8 DEF UniqueOK, Conflict, AllCovered, CoveredBy
<1>6. CASE PutLogged(p)
  <2> DEFINE k == req[p]
  <2>1. /\ mutex = p /\ pc[p] = "append"
        /\ versions' = PutDocument(versions, k) /\ UNCHANGED error
        /\ \/ active' = active /\ frozen' = frozen
           \/ active' = {} /\ frozen' = Append(frozen, active)
    BY <1>6 DEF PutLogged, flags
  <2>2. ~error /\ ~CoveredBy(k, versions) /\ k \in Mutation
    BY <1>2, <2>1 DEF Inv, WriterInv, LockOK, Stale, TypeOK, ThreadType
  <2>3. \/ active' = active /\ Queued' = Queued
        \/ active' = {} /\ Queued' = Queued \cup active
    <3>1. frozen \in Seq((SUBSET Mutation) \ {{}})
      BY <1>2 DEF TypeOK, BufferType
    <3> QED BY <2>1, <3>1, QueuedAppend DEF Queued
  <2>4. Everything' = Everything
    BY <1>0, <1>1, <2>3 DEF Everything
  <2>5. AllCovered(Everything, versions \cup {k})
    <3>1. \A m \in active : CoveredBy(m, versions) \/ m = k
      BY <1>0, <1>4, <2>2 DEF Inv, WriterInv, ActiveOK
    <3>2. AllCovered(Published \cup Queued \cup snapshot, versions)
      BY <1>0, <2>2 DEF UniqueOK
    <3>3. CoveredBy(k, {k})
      BY <2>2, MutationFields DEF CoveredBy
    <3> QED BY <3>1, <3>2, <3>3 DEF Everything, AllCovered, CoveredBy
  <2>6. AllCovered(versions \cup {k}, versions')
    BY <1>3, <2>1, <2>2, CoverReflexive, PutCovers
  <2>7. AllCovered(Everything, versions')
    <3>1. Everything \in SUBSET Mutation /\ versions \cup {k} \in SUBSET Mutation
      BY <1>3, <2>2 DEF Everything
    <3> QED BY <1>3, <2>5, <2>6, <3>1, CoverTransitive
  <2>8. AllCovered((Published \cup Queued \cup snapshot)', versions')
    BY <2>4, <2>7, CoverMonotone DEF Everything
  <2> QED BY <2>4, <2>8 DEF UniqueOK, Conflict, AllCovered, CoveredBy
<1>7. CASE PutLogFails(p)
  <2>1. error' /\ UNCHANGED <<active, frozen>>
    BY <1>7 DEF PutLogFails, StickyError, buffer
  <2>2. Everything' = Everything
    BY <1>0, <1>1, <2>1 DEF Everything, Queued
  <2> QED BY <1>2, <2>1, <2>2, UniqueFrame
<1>8. CASE pc'[p] # "append" /\ ~PutLogged(p) /\ ~PutLogFails(p)
  <2>1. /\ mutex = NoThread /\ UNCHANGED <<versions, error>>
        /\ \/ UNCHANGED <<active, frozen>>
           \/ ~error /\ FreezeActive /\ active' = ActiveAfterFreeze
    BY <1>8, PutOthers
  <2>2. \A q \in Producers : pc[q] # "append"
    BY <1>4, <2>1
  <2>3. \/ active' = active /\ Queued' = Queued
        \/ active' = {} /\ Queued' = Queued \cup active
    BY <2>1, <2>2, Frozen DEF Queued
  <2>4. Everything' \subseteq Everything
    BY <1>0, <1>1, <2>3 DEF Everything
  <2>5. ~error => AllCovered(active, versions)
    BY <1>0, <2>2, ActiveCovered
  <2> QED BY <1>0, <1>2, <2>1, <2>4, <2>5, UniqueFrame
<1> QED BY <1>5, <1>6, <1>7, <1>8

\* put.
LEMMA PutViews ==
  ASSUME Inv, Inv', ViewInv, NEW p \in Producers, PutAction(p)
  PROVE  ViewInv'
<1>0. /\ mutex \in {NoThread, p}
      /\ UNCHANGED <<segs, manifests, current, up, snapshot, job, manifest>>
      /\ \A t \in Threads \ {p} : pc'[t] = pc[t]
  BY PutFrame DEF pubState
<1>1. UniqueOK'
  BY PutUnique DEF ViewInv
<1>2. SourceOK'
  BY <1>0, SourceFrame DEF ViewInv
<1>3. TornOK' /\ (faults' = 0 => faults = 0)
  BY PutTorn DEF ViewInv
<1>4. ManifestOK'
  BY <1>0, <1>3 DEF ViewInv, ManifestOK
<1>5. ViewOK'
  BY <1>0, NobodyViews, ThreadFacts DEF ViewInv
<1> QED BY <1>1, <1>2, <1>3, <1>4, <1>5 DEF ViewInv

\* refresh, merge_all and the destructor, up to the log reset.
LEMMA RefreshViews ==
  ASSUME Inv, Inv', ViewInv, NEW c \in Callers, RefreshAction(c)
  PROVE  ViewInv'
<1>0. /\ up /\ mutex \in {NoThread, c}
      /\ UNCHANGED <<segs, manifests, current, up, snapshot, job, manifest, versions>>
      /\ \A t \in Threads \ {c} : pc'[t] = pc[t]
  BY RefreshFrame DEF pubState
<1>1. Published' = Published
  BY <1>0, FilesSame
<1>2. \A q \in Producers : pc[q] # "append" /\ pc'[q] = pc[q]
  BY <1>0, OnlyResetter, ThreadFacts
<1>3. /\ torn' \in {torn, "no"} /\ (error => error')
      /\ faults' = 0 => faults = 0
  <2>0. faults \in Nat
    BY DEF Inv, TypeOK, HistoryType
  <2>1. CASE RefreshReset(c)
    BY <2>1 DEF RefreshReset
  <2>2. CASE RefreshResetFails(c)
    <3>1. error' /\ faults' = faults + 1 /\ torn' \in {torn, "no"}
      BY <2>2 DEF RefreshResetFails, StickyError
    <3> QED BY <2>0, <3>1
  <2>3. CASE ~RefreshReset(c) /\ ~RefreshResetFails(c)
    <3>1. UNCHANGED <<torn, error, faults>>
      BY <2>3 DEF RefreshAction, RefreshReenter, RefreshCapacity, RefreshIdle, RefreshCall,
                  RefreshEnter, CloseStop, disk, history
    <3> QED BY <3>1
  <2> QED BY <2>1, <2>2, <2>3
<1>4. \/ UNCHANGED active /\ Queued' = Queued
      \/ ~error /\ active' = {} /\ Queued' = Queued \cup active
  <2>1. CASE RefreshReset(c) \/ RefreshResetFails(c)
    BY <2>1 DEF RefreshReset, RefreshResetFails, buffer, Queued
  <2> QED BY <2>1, RefreshWaits
<1>5. UniqueOK'
  <2>1. Everything' \subseteq Everything
    BY <1>0, <1>1, <1>4 DEF Everything
  <2>2. ~error => AllCovered(active, versions)
    BY <1>0, <1>2, ActiveCovered
  <2>3. TypeOK' /\ UniqueOK
    BY DEF Inv, ViewInv
  <2> QED BY <1>0, <1>3, <2>1, <2>2, <2>3, UniqueFrame
<1>6. SourceOK'
  BY <1>0, SourceFrame DEF ViewInv
<1>7. ManifestOK'
  BY <1>0, <1>3 DEF ViewInv, ManifestOK
<1>8. ViewOK'
  BY <1>0, NobodyViews, ThreadFacts DEF ViewInv
<1>9. TornOK'
  <2>1. ~error => torn = "no"
    BY <1>0, <1>2 DEF ViewInv, TornOK
  <2> QED BY <1>3, <2>1 DEF ViewInv, TornOK
<1> QED BY <1>5, <1>6, <1>7, <1>8, <1>9 DEF ViewInv

\* What the worker takes from the queue was in it.
LEMMA QueueTaken ==
  ASSUME frozen \in Seq((SUBSET Mutation) \ {{}}), frozen # <<>>, frozen' = Tail(frozen)
  PROVE  Head(frozen) \subseteq Queued /\ Queued' \subseteq Queued
<1>1. Len(frozen) \in Nat /\ Len(frozen) > 0 /\ Head(frozen) = frozen[1]
  OBVIOUS
<1>2. Len(frozen') = Len(frozen) - 1 /\ \A i \in 1..Len(frozen') : frozen'[i] = frozen[i + 1]
  BY <1>1
<1>3. Head(frozen) \subseteq Queued
  <2>1. 1 \in 1..Len(frozen)
    BY <1>1
  <2> QED BY <1>1, <2>1 DEF Queued
<1>4. \A i \in 1..Len(frozen') : frozen'[i] \subseteq Queued
  <2> SUFFICES ASSUME NEW i \in 1..Len(frozen') PROVE frozen'[i] \subseteq Queued
    OBVIOUS
  <2>1. i + 1 \in 1..Len(frozen) /\ frozen'[i] = frozen[i + 1]
    BY <1>1, <1>2
  <2> QED BY <2>1 DEF Queued
<1>5. Queued' \subseteq Queued
  <2> SUFFICES ASSUME NEW m \in Queued' PROVE m \in Queued
    OBVIOUS
  <2>1. PICK i \in 1..Len(frozen') : m \in frozen'[i]
    BY DEF Queued
  <2> QED BY <1>4, <2>1
<1> QED BY <1>3, <1>5

\* The worker, and the beginning of a merge.
LEMMA WorkerViews ==
  ASSUME Inv, Inv', ViewInv, WorkerAction
  PROVE  ViewInv'
<1>0. /\ up /\ mutex = NoThread
      /\ UNCHANGED <<disk, up, versions, active, manifest, history>>
      /\ \A q \in Producers : pc'[q] = pc[q]
  BY WorkerFrame
<1>1. UNCHANGED <<wal, torn, segs, manifests, current, faults>>
  BY <1>0 DEF disk, history
<1>2. Published' = Published /\ \A ids : SegmentDocs(ids)' = SegmentDocs(ids)
  BY <1>1, FilesSame
<1>3. TypeOK /\ TypeOK' /\ frozen \in Seq((SUBSET Mutation) \ {{}})
  BY DEF Inv, TypeOK, BufferType
<1>4. /\ snapshot' \cup Queued' \subseteq snapshot \cup Queued
      /\ (error => error')
  <2>1. CASE WorkerTake
    <3>1. UNCHANGED error
      BY <2>1 DEF WorkerTake
    <3>2. \/ frozen # <<>> /\ snapshot' = Head(frozen) /\ frozen' = Tail(frozen)
          \/ UNCHANGED <<snapshot, frozen>>
      BY <2>1 DEF WorkerTake
    <3> QED BY <1>3, <3>1, <3>2, QueueTaken DEF Queued
  <2>2. CASE WorkerDone
    BY <2>2 DEF WorkerDone, buffer, Queued, StickyError
  <2>3. CASE WorkerFlush \/ CompactAction
    <3>1. UNCHANGED <<buffer, flags, snapshot>>
      BY <2>3 DEF WorkerFlush, CompactAction, Compact, CompactNothing, worker
    <3> QED BY <3>1 DEF buffer, flags, Queued
  <2> QED BY <2>1, <2>2, <2>3 DEF WorkerAction
<1>5. UniqueOK'
  <2>1. Everything' \subseteq Everything
        /\ (Published \cup Queued \cup snapshot)' \subseteq Published \cup Queued \cup snapshot
    BY <1>0, <1>2, <1>4 DEF Everything
  <2> QED BY <1>0, <1>3, <1>4, <2>1, UniqueFrame DEF ViewInv
<1>6. ManifestOK'
  <2>1. CASE UNCHANGED job
    BY <1>0, <1>1, <2>1 DEF ViewInv, ManifestOK
  <2>2. CASE job.stage = "free"
    BY <1>0, <1>1, <2>2 DEF ViewInv, ManifestOK
  <2> QED BY <2>1, <2>2 DEF WorkerAction, WorkerTake, WorkerDone, WorkerFlush, CompactAction,
                            Compact, CompactNothing, worker
<1>7. SourceOK'
  <2>1. CASE UNCHANGED job
    BY <1>0, <1>1, <1>2, <2>1 DEF ViewInv, SourceOK
  <2>2. CASE WorkerFlush
    <3>1. job' = [NoJob EXCEPT !.stage = "segment", !.id = nextSeg, !.docs = snapshot,
                    !.next = [generation |-> manifest.generation + 1,
                              segments |-> manifest.segments \cup {nextSeg}]]
      BY <2>2 DEF WorkerFlush, FlushedSegments
    <3>2. /\ job'.stage = "segment" /\ ~job'.merge /\ job'.id = nextSeg
          /\ job'.next.segments = manifest.segments \cup {nextSeg}
      BY <3>1 DEF NoJob
    <3> QED BY <1>0, <3>2 DEF SourceOK
  <2>3. ASSUME NEW t \in Callers \cup {Worker}, Compact(t)
        PROVE  SourceOK'
    <3>1. PICK chosen \in Selections :
            job' = [stage |-> "segment", owner |-> t, merge |-> TRUE,
                    id |-> nextSeg, docs |-> Latest(SegmentDocs(Opened(chosen))),
                    next |-> [generation |-> manifest.generation + 1,
                              segments |-> CompactedSegments(chosen)],
                    obsolete |-> manifest]
      BY <2>3 DEF Compact
    <3>2. /\ job'.stage = "segment" /\ job'.id = nextSeg
          /\ job'.docs = Latest(SegmentDocs(Opened(chosen)))
          /\ job'.next.segments = (manifest.segments \ chosen) \cup {nextSeg}
      BY <3>1 DEF CompactedSegments
    <3>3. Latest(SegmentDocs(Opened(chosen))) \subseteq Published
      <4>1. Opened(chosen) \subseteq ManifestSegments(current)
        BY DEF Opened
      <4>2. SegmentDocs(Opened(chosen)) \subseteq Published
        BY <4>1 DEF SegmentDocs, Published
      <4> QED BY <4>2 DEF Latest
    <3> QED BY <1>0, <1>2, <3>2, <3>3 DEF SourceOK
  <2> QED BY <2>1, <2>2, <2>3 DEF WorkerAction, WorkerTake, WorkerDone, CompactAction,
                                  CompactNothing, worker
<1>8. ViewOK'
  <2>0. pc \in [Threads -> ProducerStates \cup CallerStates \cup ReaderStates \cup WorkerStates]
    BY <1>3 DEF TypeOK, ThreadType
  <2>1. \E t \in Callers \cup {Worker} : \E s : pc' = [pc EXCEPT ![t] = s]
    BY DEF WorkerAction, WorkerTake, WorkerDone, WorkerFlush, CompactAction,
           Compact, CompactNothing, SleepAt
  <2>2. \A r \in Readers : pc'[r] = pc[r]
    BY <2>0, <2>1, ThreadFacts
  <2> QED BY <1>0, <2>2, NobodyViews, ThreadFacts DEF ViewInv
<1>9. TornOK'
  BY <1>0, <1>1, <1>4 DEF ViewInv, TornOK
<1> QED BY <1>5, <1>6, <1>7, <1>8, <1>9 DEF ViewInv

\* open_search_view.
LEMMA ReaderViews ==
  ASSUME Inv, Inv', ViewInv, NEW r \in Readers, ViewAction(r)
  PROVE  ViewInv'
<1>0. /\ up /\ mutex \in {NoThread, r}
      /\ UNCHANGED <<disk, up, buffer, flags, req, op, worker, history>>
      /\ \A t \in Threads \ {r} : pc'[t] = pc[t]
  BY ViewFrame
<1>1. UNCHANGED <<wal, torn, segs, manifests, current, versions, active, frozen, error, snapshot,
                  job, manifest, promised, overtaken, faults>>
  BY <1>0 DEF disk, buffer, flags, worker, history
<1>2. TypeOK /\ TypeOK' /\ r \in Threads
  BY ThreadFacts DEF Inv
<1>3. \A q \in Producers : pc'[q] = pc[q]
  BY <1>0, ThreadFacts
<1>4. /\ FileIds' = FileIds /\ Published' = Published
      /\ \A g : ManifestSegments(g)' = ManifestSegments(g)
      /\ \A ids : SegmentDocs(ids)' = SegmentDocs(ids)
  BY <1>1, FilesSame
<1>5. UniqueOK'
  <2>1. Everything' = Everything /\ (Published \cup Queued \cup snapshot)' = Published \cup Queued \cup snapshot
    BY <1>1, <1>4 DEF Everything, Queued
  <2> QED BY <1>0, <1>1, <1>2, <2>1, UniqueFrame DEF ViewInv
<1>6. SourceOK'
  BY <1>1, SourceFrame DEF ViewInv
<1>7. ManifestOK' /\ TornOK'
  BY <1>0, <1>1, <1>3 DEF ViewInv, ManifestOK, TornOK
<1>8. ViewOK'
  <2>0. /\ pc \in [Threads -> ProducerStates \cup CallerStates \cup ReaderStates \cup WorkerStates]
        /\ view \in [Readers -> [generation : Nat, segments : SUBSET Nat, docs : SUBSET Mutation]]
        /\ current \in Nat /\ promised \in SUBSET Mutation
    BY <1>2 DEF TypeOK, ThreadType, DiskType, HistoryType
  <2>1. ASSUME NEW g, Kept(g), view'[r].generation = g
        PROVE  Kept(view[r].generation)'
    <3>1. ManifestSegments(view[r].generation)' = ManifestSegments(g)
      BY <1>1, <2>1 DEF ManifestSegments
    <3>2. SegmentDocs(ManifestSegments(view[r].generation))' = SegmentDocs(ManifestSegments(g))
      BY <1>1, <3>1 DEF SegmentDocs
    <3> QED BY <1>1, <1>4, <2>1, <3>1, <3>2 DEF Kept, Conflict, AllCovered, CoveredBy
  <2>2. ASSUME NEW q \in Readers \ {r}, Viewing(q)' PROVE FALSE
    <3>1. Viewing(q) /\ q \in Threads /\ q # NoThread
      BY <1>0, <2>2, ThreadFacts DEF Viewing
    <3> QED BY <1>0, <3>1 DEF ViewInv, ViewOK
  <2>3. CASE ViewBegin(r)
    <3>1. mutex' = r /\ pc'[r] = "view_manifest" /\ view'[r].generation = current /\ current # 0
      BY <1>2, <2>0, <2>3 DEF ViewBegin, NoView
    <3>2. Kept(current)
      <4>1. ~Conflict(Published)
        BY ConflictSubset DEF ViewInv, UniqueOK, Everything
      <4>2. CurrentOpens /\ AllCovered(promised \ overtaken, Published)
        BY DEF Inv, WriterInv, GenerationOK, AcceptedOK, RefreshedVisible
      <4>3. job.stage = "segment" => job.id \notin ManifestSegments(current)
        BY DEF Inv, WriterInv, JobOK
      <4> QED BY <2>0, <3>1, <4>1, <4>2, <4>3 DEF Kept, CurrentOpens, Published
    <3>3. Kept(view[r].generation)'
      BY <1>1, <2>1, <3>1, <3>2
    <3> QED BY <2>2, <3>1, <3>3 DEF ViewOK
  <2>4. CASE ViewManifest(r)
    <3>1. /\ pc[r] = "view_manifest" /\ mutex = r /\ mutex' = r
          /\ view'[r].segments = ManifestSegments(view[r].generation)
          /\ view'[r].generation = view[r].generation
          /\ pc'[r] = IF \E x \in manifests : x.generation = view[r].generation
                      THEN "view_segments" ELSE "view_failed"
      BY <1>2, <2>0, <2>4 DEF ViewManifest
    <3>2. Kept(view[r].generation)
      BY <3>1 DEF ViewInv, ViewOK, Viewing
    <3>3. pc'[r] = "view_segments"
      BY <3>1, <3>2 DEF Kept
    <3>4. Kept(view[r].generation)'
      BY <2>1, <3>1, <3>2
    <3> QED BY <1>4, <2>2, <3>1, <3>3, <3>4 DEF ViewOK
  <2>5. CASE ViewSegments(r)
    <3>1. /\ pc[r] = "view_segments" /\ mutex = r /\ mutex' = r
          /\ view'[r].docs = Latest(SegmentDocs(view[r].segments))
          /\ view'[r].generation = view[r].generation
          /\ pc'[r] = IF /\ view[r].segments \subseteq FileIds
                         /\ ~Conflict(SegmentDocs(view[r].segments))
                      THEN "view_open" ELSE "view_failed"
      BY <1>2, <2>0, <2>5 DEF ViewSegments
    <3>2. Kept(view[r].generation) /\ view[r].segments = ManifestSegments(view[r].generation)
      BY <3>1 DEF ViewInv, ViewOK, Viewing
    <3>3. pc'[r] = "view_open" /\ AllCovered(promised \ overtaken, SegmentDocs(view[r].segments))
      BY <3>1, <3>2 DEF Kept
    <3>4. AllCovered(promised \ overtaken, view'[r].docs)
      <4>1. SegmentDocs(view[r].segments) \in SUBSET Mutation
        BY <1>2, FileTypes
      <4>2. /\ view'[r].docs \in SUBSET Mutation
            /\ AllCovered(SegmentDocs(view[r].segments), view'[r].docs)
        BY <3>1, <4>1, LatestCovers
      <4> QED BY <2>0, <3>3, <4>1, <4>2, CoverTransitive
    <3>5. Kept(view[r].generation)'
      BY <2>1, <3>1, <3>2
    <3>6. AllCovered(promised' \ overtaken', view'[r].docs)
      BY <1>1, <3>4
    <3> QED BY <2>2, <3>1, <3>3, <3>5, <3>6 DEF ViewOK, AllCovered, CoveredBy
  <2>6. CASE ViewEnd(r)
    <3>1. pc'[r] = "idle"
      BY <1>2, <2>0, <2>6 DEF ViewEnd
    <3> QED BY <2>2, <3>1 DEF ViewOK, Viewing
  <2> QED BY <2>3, <2>4, <2>5, <2>6 DEF ViewAction, ReaderStep
<1> QED BY <1>5, <1>6, <1>7, <1>8 DEF ViewInv

\* Process death.
LEMMA HaltViews ==
  ASSUME Inv, Inv', ViewInv, HaltAction
  PROVE  ViewInv'
<1>1. Halt
  BY DEF HaltAction, Crash, CloseJoin, CompactOverrun
<1>2. /\ ~up' /\ active' = {} /\ frozen' = <<>> /\ snapshot' = {} /\ job' = NoJob
      /\ pc' = [t \in Threads |-> IF t = Worker THEN "wait" ELSE "idle"]
  BY <1>1 DEF Halt
<1>3. Published' = Published
  BY HaltInv
<1>4. UniqueOK'
  <2>1. Everything' \subseteq Everything
    BY <1>2, <1>3 DEF Everything, Queued
  <2> QED BY <1>2, <2>1, UniqueFrame DEF Inv, ViewInv
<1>5. SourceOK'
  BY <1>2 DEF SourceOK, NoJob
<1>6. ViewOK'
  BY <1>2, ThreadFacts DEF ViewOK, Viewing
<1>7. TornOK'
  <2>1. torn' \in {torn, "no"}
    BY DEF HaltAction, Crash, CloseJoin, CompactOverrun
  <2> QED BY <1>2, <2>1 DEF ViewInv, TornOK
<1> QED BY <1>2, <1>4, <1>5, <1>6, <1>7 DEF ViewInv, ManifestOK

\* A restart.
LEMMA OpenViews ==
  ASSUME Inv, Inv', ViewInv, Open
  PROVE  ViewInv'
<1> DEFINE R == {wal[i] : i \in Replayed}
<1>1. /\ ~up /\ torn' = "no"
      /\ UNCHANGED <<current, frozen, error, pc, mutex, snapshot, job>>
      /\ active' = Latest(R) /\ versions' = Latest(Published \cup R)
      /\ manifest'.generation = current
  BY DEF Open, flags, threads
<1>2. /\ frozen = <<>> /\ snapshot = {} /\ job.stage = "free" /\ ~error
      /\ mutex = NoThread
  BY <1>1 DEF Inv, WriterInv, DownOK
<1>3. Published' = Published
  BY OpenInv
<1>4. TypeOK /\ TypeOK'
  BY DEF Inv
<1>5. ~Conflict(Published \cup R)
  <2>1. ~Conflict(Published)
    BY ConflictSubset DEF ViewInv, UniqueOK, Everything
  <2> QED BY <1>4, <2>1, ConflictReplay
<1>6. R \in SUBSET Mutation /\ Published \in SUBSET Mutation
  BY <1>4, ReplayedFacts
<1> HIDE DEF R
<1>7. UniqueOK'
  <2>1. active' \subseteq R /\ AllCovered(Published \cup R, versions')
    BY <1>1, <1>6, LatestCovers
  <2>2. Queued' = {} /\ snapshot' = {}
    BY <1>1, <1>2 DEF Queued
  <2>3. Everything' \subseteq Published \cup R
    BY <1>3, <2>1, <2>2 DEF Everything
  <2>4. ~Conflict(Everything')
    BY <1>5, <2>3, ConflictSubset
  <2>5. AllCovered((Published \cup Queued \cup snapshot)', versions')
    BY <1>3, <2>1, <2>2, CoverMonotone
  <2> QED BY <2>4, <2>5 DEF UniqueOK, Conflict, AllCovered, CoveredBy
<1>8. SourceOK' /\ ManifestOK' /\ TornOK'
  BY <1>1, <1>2 DEF SourceOK, ManifestOK, TornOK
<1>9. ViewOK'
  BY <1>1, <1>2, NobodyViews, ThreadFacts DEF ViewInv
<1> QED BY <1>7, <1>8, <1>9 DEF ViewInv

-----------------------------------------------------------------------------
(* The steps of a publication                                              *)

\* A publication publishes what was published before and what the worker took.
LEMMA JobPublished ==
  ASSUME Inv, ViewInv, JobStep \/ JobFault
  PROVE  Published' \subseteq Published \cup snapshot
<1>0. up /\ job.stage # "free"
  BY JobFrame
<1>2. CASE UNCHANGED <<segs, manifests, current>>
  BY <1>2, FilesSame
<1>3. CASE /\ job.stage = "segment" /\ segs' = WithSegment([id |-> job.id, docs |-> job.docs])
           /\ UNCHANGED <<manifests, current>>
  <2>1. job.id \notin ManifestSegments(current)
    BY <1>3 DEF Inv, WriterInv, JobOK
  <2> QED BY <1>0, <1>3, <2>1, SegmentAdded, JobFacts
<1>4. CASE /\ job.stage = "manifest" /\ Publishable(job.next)
           /\ manifests' = WithManifest(job.next) /\ UNCHANGED <<segs, current>>
  <2>1. job.next.generation # current
    BY <1>0, <1>4, JobFacts DEF Publishable
  <2> QED BY <1>0, <1>4, <2>1, ManifestAdded, JobFacts
<1>5. CASE /\ job.stage = "current" /\ current' = job.next.generation /\ UNCHANGED <<segs, manifests>>
  <2>1. ManifestSegments(current)' = job.next.segments
    BY <1>0, <1>5, CurrentReplaced
  <2>2. Published' = SegmentDocs(job.next.segments)
    BY <1>5, <2>1 DEF Published, SegmentDocs
  <2>3. manifest.generation = current /\ manifest.segments = ManifestSegments(current)
    BY <1>0, <1>5 DEF Inv, WriterInv, JobOK, GenerationOK
  <2>4. job.next.segments \subseteq ManifestSegments(current) \cup {job.id}
    BY <1>5, <2>3 DEF ViewInv, SourceOK
  <2>5. SegmentDocs(job.next.segments) \subseteq Published \cup SegmentDocs({job.id})
    BY <2>4 DEF Published, SegmentDocs
  <2>6. SegmentDocs({job.id}) \subseteq job.docs
    BY <1>5 DEF ViewInv, SourceOK
  <2>7. job.docs \subseteq Published \/ job.docs = snapshot
    BY <1>0, <1>5, <2>3 DEF ViewInv, SourceOK, Inv, WriterInv, JobOK
  <2> QED BY <2>2, <2>5, <2>6, <2>7
<1>6. CASE /\ job.stage = "reclaim" /\ UNCHANGED <<manifests, current>>
           /\ \E f \in Obsolete : segs' = segs \ {f}
  <2>1. manifests' = manifests /\ current' = current /\ segs' \subseteq segs
    BY <1>6
  <2> QED BY <2>1 DEF Published, SegmentDocs, ManifestSegments
<1>7. CASE /\ job.stage = "reclaim" /\ UNCHANGED <<segs, current>>
           /\ manifests' = {x \in manifests : x.generation # job.obsolete.generation}
  <2>1. manifests' \subseteq manifests /\ current' = current /\ segs' = segs
    BY <1>7
  <2> QED BY <2>1 DEF Published, SegmentDocs, ManifestSegments
<1>8. CASE JobStep
  BY <1>8, <1>2, <1>3, <1>4, <1>5, <1>6, <1>7 DEF JobStep, JobSegment, JobManifest, JobRefused,
     JobCurrent, JobInstall, JobReclaim, JobReclaimed, disk
<1>9. CASE JobFault
  BY <1>9, <1>2, <1>3, <1>4, <1>5 DEF JobFault
<1> QED BY <1>8, <1>9

\* The generation stays as it was when no file of it is replaced or removed.
LEMMA KeptFiles ==
  ASSUME TypeOK, NEW r \in Readers, Kept(view[r].generation),
         UNCHANGED <<view, promised, overtaken>>,
         \A x \in manifests : x.generation = view[r].generation => x \in manifests',
         \A x \in manifests' : x.generation = view[r].generation => x \in manifests,
         \A f \in segs : f.id \in ManifestSegments(view[r].generation) => f \in segs',
         \A f \in segs' : f.id \in ManifestSegments(view[r].generation) => f \in segs,
         current' \in Nat, current' >= current,
         job'.stage = "segment" => job'.id \notin ManifestSegments(view[r].generation),
         job'.stage = "reclaim" => view[r].generation = current'
  PROVE  /\ Kept(view[r].generation)'
         /\ ManifestSegments(view[r].generation)' = ManifestSegments(view[r].generation)
<1> DEFINE g == view[r].generation
<1>0. g \in Nat /\ current \in Nat /\ view'[r].generation = g
  BY DEF TypeOK, ThreadType, DiskType
<1>1. ManifestSegments(view[r].generation)' = ManifestSegments(g)
  BY <1>0 DEF ManifestSegments
<1>2. SegmentDocs(ManifestSegments(view[r].generation))' = SegmentDocs(ManifestSegments(g))
  BY <1>1 DEF SegmentDocs
<1>3. g <= current'
  BY <1>0 DEF Kept
<1>4. \E x \in manifests' : x.generation = g
  BY DEF Kept
<1>5. ManifestSegments(g) \subseteq FileIds'
  BY DEF Kept, FileIds
<1>6. /\ ~Conflict(SegmentDocs(ManifestSegments(g)))
      /\ AllCovered(promised \ overtaken, SegmentDocs(ManifestSegments(g)))
  BY DEF Kept
<1> HIDE DEF g
<1>7. Kept(view[r].generation)'
  BY <1>0, <1>1, <1>2, <1>3, <1>4, <1>5, <1>6 DEF Kept, Conflict, AllCovered, CoveredBy, g
<1> QED BY <1>1, <1>7 DEF g

\* A publication does not touch the generation that a reader opens.
LEMMA JobKeeps ==
  ASSUME Inv, NEW r \in Readers, mutex # NoThread, Kept(view[r].generation), JobStep \/ JobFault
  PROVE  /\ Kept(view[r].generation)'
         /\ ManifestSegments(view[r].generation)' = ManifestSegments(view[r].generation)
<1> DEFINE g == view[r].generation
<1>0. up /\ job.stage # "free" /\ UNCHANGED <<view, promised, overtaken>>
  BY JobFrame
<1>1. TypeOK /\ g \in Nat /\ current \in Nat
  BY DEF Inv, TypeOK, ThreadType, DiskType
<1>2. g <= current
  BY DEF Kept
<1>s. NoJob.stage = "free"
  BY DEF NoJob
<1>3. CASE UNCHANGED <<segs, manifests, current>> /\ job'.stage \notin {"segment", "reclaim"}
  BY <1>0, <1>1, <1>3, KeptFiles
<1>4. CASE /\ job.stage = "segment" /\ segs' = WithSegment([id |-> job.id, docs |-> job.docs])
           /\ UNCHANGED <<manifests, current>> /\ job'.stage \notin {"segment", "reclaim"}
  <2>1. job.id \notin ManifestSegments(g)
    BY <1>4 DEF Kept
  <2>2. /\ \A f \in segs : f.id \in ManifestSegments(g) => f \in segs'
        /\ \A f \in segs' : f.id \in ManifestSegments(g) => f \in segs
    BY <1>4, <2>1 DEF WithSegment
  <2> QED BY <1>0, <1>1, <1>4, <2>2, KeptFiles
<1>5. CASE /\ job.stage = "manifest" /\ Publishable(job.next) /\ manifests' = WithManifest(job.next)
           /\ UNCHANGED <<segs, current>> /\ job'.stage \notin {"segment", "reclaim"}
  <2>1. job.next.generation # g
    BY <1>0, <1>1, <1>2, <1>5, JobFacts DEF Publishable
  <2>2. /\ \A x \in manifests : x.generation = g => x \in manifests'
        /\ \A x \in manifests' : x.generation = g => x \in manifests
    BY <1>5, <2>1 DEF WithManifest
  <2> QED BY <1>0, <1>1, <1>5, <2>2, KeptFiles
<1>6. CASE /\ job.stage = "current" /\ current' = job.next.generation
           /\ UNCHANGED <<segs, manifests>> /\ job'.stage \notin {"segment", "reclaim"}
  <2>1. current' = current + 1
    BY <1>0, <1>6, CurrentReplaced
  <2> QED BY <1>0, <1>1, <1>6, <2>1, KeptFiles
<1>7. CASE job.stage = "reclaim" /\ UNCHANGED <<manifests, current, job>>
           /\ \E f \in Obsolete : segs' = segs \ {f}
  <2>1. g = current /\ ManifestSegments(g) = job.next.segments
    BY <1>7 DEF Kept, Inv, WriterInv, JobOK
  <2>2. /\ \A f \in segs : f.id \in ManifestSegments(g) => f \in segs'
        /\ segs' \subseteq segs
    BY <1>7, <2>1 DEF Obsolete
  <2> QED BY <1>0, <1>1, <1>7, <2>1, <2>2, KeptFiles
<1>8. CASE /\ job.stage = "reclaim" /\ UNCHANGED <<segs, current>> /\ job' = NoJob
           /\ manifests' = {x \in manifests : x.generation # job.obsolete.generation}
  <2>1. g = current /\ job.obsolete.generation < current
    BY <1>8 DEF Kept, Inv, WriterInv, JobOK
  <2>2. \A x \in manifests : x.generation = g => x \in manifests'
    BY <1>1, <1>8, <2>1
  <2> QED BY <1>0, <1>1, <1>8, <1>s, <2>2, KeptFiles
<1>j. job \in [stage : Stages, owner : Callers \cup {Worker}, merge : BOOLEAN,
               id : Nat, docs : SUBSET Mutation, next : Generation, obsolete : Generation]
  BY <1>1 DEF TypeOK, WorkerType
<1>9. CASE JobSegment
  <2>1. job'.stage = "manifest"
    BY <1>9, <1>j DEF JobSegment
  <2> QED BY <1>4, <1>9, <2>1 DEF JobSegment
<1>10. CASE JobManifest
  <2>1. job'.stage = "current"
    BY <1>10, <1>j DEF JobManifest
  <2> QED BY <1>5, <1>10, <2>1 DEF JobManifest
<1>11. CASE JobCurrent
  <2>1. job'.stage = "install"
    BY <1>11, <1>j DEF JobCurrent
  <2> QED BY <1>6, <1>11, <2>1 DEF JobCurrent
<1>12. CASE JobRefused
  BY <1>3, <1>12, <1>s DEF JobRefused, JobEnds, disk
<1>13. CASE JobInstall
  BY <1>13 DEF JobInstall, InstallLock
<1>14. CASE JobReclaim
  BY <1>7, <1>14 DEF JobReclaim, worker
<1>15. CASE JobReclaimed
  BY <1>3, <1>8, <1>15, <1>s DEF JobReclaimed, JobEnds
<1>16. CASE JobFault
  <2>1. job'.stage = "free"
    BY <1>16, <1>s DEF JobFault, JobEnds
  <2> QED BY <1>3, <1>4, <1>5, <1>6, <1>16, <2>1 DEF JobFault
<1> QED BY <1>9, <1>10, <1>11, <1>12, <1>13, <1>14, <1>15, <1>16 DEF JobStep

\* What becomes of the publication and of manifest_.
LEMMA JobSource ==
  ASSUME Inv, ViewInv, JobStep \/ JobFault
  PROVE  SourceOK' /\ ManifestOK'
<1>0. up /\ job.stage # "free" /\ UNCHANGED <<up, snapshot>>
  BY JobFrame
<1>1. /\ job \in [stage : Stages, owner : Callers \cup {Worker}, merge : BOOLEAN,
                  id : Nat, docs : SUBSET Mutation, next : Generation, obsolete : Generation]
      /\ faults \in Nat /\ NoJob.stage = "free"
  BY DEF Inv, TypeOK, WorkerType, HistoryType, NoJob
<1>2. SourceOK /\ ManifestOK
  BY DEF ViewInv
<1>3. CASE JobSegment
  <2>1. /\ job.stage = "segment" /\ job' = [job EXCEPT !.stage = "manifest"]
        /\ segs' = WithSegment([id |-> job.id, docs |-> job.docs])
        /\ UNCHANGED <<manifests, current, manifest, faults>>
    BY <1>3 DEF JobSegment, history
  <2>2. /\ job'.stage = "manifest" /\ job'.id = job.id /\ job'.docs = job.docs
        /\ job'.merge = job.merge /\ job'.next = job.next
    BY <1>1, <2>1
  <2>3. Published' = Published
    <3>1. job.id \notin ManifestSegments(current)
      BY <2>1 DEF Inv, WriterInv, JobOK
    <3> QED BY <1>0, <2>1, <3>1, SegmentAdded, JobFacts
  <2>4. SegmentDocs({job.id})' \subseteq job.docs
    BY <2>1, <2>2 DEF SegmentDocs, WithSegment
  <2> QED BY <1>0, <1>2, <2>1, <2>2, <2>3, <2>4 DEF SourceOK, ManifestOK
<1>4. CASE JobManifest
  <2>1. /\ job.stage = "manifest" /\ job' = [job EXCEPT !.stage = "current"]
        /\ manifests' = WithManifest(job.next) /\ Publishable(job.next)
        /\ UNCHANGED <<segs, current, manifest, faults>>
    BY <1>4 DEF JobManifest, history
  <2>2. /\ job'.stage = "current" /\ job'.id = job.id /\ job'.docs = job.docs
        /\ job'.merge = job.merge /\ job'.next = job.next
    BY <1>1, <2>1
  <2>3. Published' = Published
    <3>1. job.next.generation # current
      BY <1>0, <2>1, JobFacts DEF Publishable
    <3> QED BY <1>0, <2>1, <3>1, ManifestAdded, JobFacts
  <2>4. SegmentDocs({job.id})' = SegmentDocs({job.id})
    BY <2>1, <2>2 DEF SegmentDocs
  <2> QED BY <1>0, <1>2, <2>1, <2>2, <2>3, <2>4 DEF SourceOK, ManifestOK
<1>5. CASE JobCurrent
  <2>1. job'.stage = "install"
    BY <1>1, <1>5 DEF JobCurrent
  <2> QED BY <2>1 DEF SourceOK, ManifestOK
<1>6. CASE JobRefused \/ JobReclaimed
  <2>1. /\ job.stage # "install" /\ job'.stage = "free"
        /\ UNCHANGED <<manifest, current, faults>>
    BY <1>1, <1>6 DEF JobRefused, JobReclaimed, JobEnds, disk, history
  <2> QED BY <1>0, <1>2, <2>1 DEF SourceOK, ManifestOK
<1>7. CASE JobInstall
  <2>1. job'.stage \in {"reclaim", "free"} /\ manifest' = job.next /\ UNCHANGED current
    BY <1>1, <1>7 DEF JobInstall, JobEnds, InstalledManifest, disk
  <2>2. current = job.next.generation
    BY <1>7 DEF JobInstall, Inv, WriterInv, JobOK
  <2> QED BY <2>1, <2>2 DEF SourceOK, ManifestOK
<1>8. CASE JobReclaim
  <2>1. job.stage = "reclaim" /\ UNCHANGED <<job, manifest, current, faults>>
    BY <1>8 DEF JobReclaim, worker, history
  <2> QED BY <1>0, <1>2, <2>1 DEF SourceOK, ManifestOK
<1>9. CASE JobFault
  <2>1. job'.stage = "free" /\ faults' = faults + 1
    BY <1>1, <1>9 DEF JobFault, JobEnds
  <2> QED BY <1>1, <2>1 DEF SourceOK, ManifestOK
<1> QED BY <1>3, <1>4, <1>5, <1>6, <1>7, <1>8, <1>9 DEF JobStep

\* The publications.
LEMMA JobViews ==
  ASSUME Inv, Inv', ViewInv, JobStep \/ JobFault
  PROVE  ViewInv'
<1>0. /\ up /\ job.owner \in Callers \cup {Worker}
      /\ UNCHANGED <<torn, up, buffer, flags, mutex, view, snapshot, promised, overtaken>>
      /\ \A t \in Threads \ {job.owner} : pc'[t] = pc[t]
  BY JobFrame
<1>1. UNCHANGED <<versions, active, frozen, error>>
  BY <1>0 DEF buffer, flags
<1>2. UniqueOK'
  <2>1. /\ Everything' \subseteq Everything
        /\ (Published \cup Queued \cup snapshot)' \subseteq Published \cup Queued \cup snapshot
    BY <1>0, <1>1, JobPublished DEF Everything, Queued
  <2> QED BY <1>0, <1>1, <2>1, UniqueFrame DEF Inv, ViewInv
<1>3. SourceOK' /\ ManifestOK'
  BY JobSource
<1>4. \A t \in Producers \cup Readers : pc'[t] = pc[t]
  BY <1>0, ThreadFacts
<1>5. ViewOK'
  <2> SUFFICES ASSUME NEW r \in Readers, Viewing(r)'
               PROVE  /\ mutex' = r /\ pc'[r] # "view_failed" /\ Kept(view[r].generation)'
                      /\ pc'[r] = "view_segments" =>
                           view'[r].segments = ManifestSegments(view[r].generation)'
                      /\ pc'[r] = "view_open" =>
                           AllCovered(promised' \ overtaken', view'[r].docs)
    BY DEF ViewOK, AllCovered, CoveredBy
  <2>1. Viewing(r)
    BY <1>4 DEF Viewing
  <2>2. /\ mutex = r /\ pc[r] # "view_failed" /\ Kept(view[r].generation)
        /\ pc[r] = "view_segments" => view[r].segments = ManifestSegments(view[r].generation)
        /\ pc[r] = "view_open" => AllCovered(promised \ overtaken, view[r].docs)
    BY <2>1 DEF ViewInv, ViewOK
  <2>3. mutex # NoThread
    BY <2>2, ThreadFacts
  <2>4. /\ Kept(view[r].generation)'
        /\ ManifestSegments(view[r].generation)' = ManifestSegments(view[r].generation)
    BY <2>2, <2>3, JobKeeps
  <2> QED BY <1>0, <1>4, <2>2, <2>4
<1>6. TornOK'
  BY <1>0, <1>1, <1>4 DEF ViewInv, TornOK
<1> QED BY <1>2, <1>3, <1>5, <1>6 DEF ViewInv

-----------------------------------------------------------------------------
(* The theorems                                                            *)

\* Nothing exists yet.
LEMMA InitViews ==
  ASSUME Init
  PROVE  ViewInv
<1>1. /\ segs = {} /\ manifests = {} /\ active = {} /\ frozen = <<>> /\ snapshot = {}
      /\ ~up /\ torn = "no" /\ job.stage = "free"
      /\ pc = [t \in Threads |-> IF t = Worker THEN "wait" ELSE "idle"]
  BY DEF Init, NoJob
<1>2. Everything = {}
  BY <1>1 DEF Everything, Queued, Published, SegmentDocs
<1>3. UniqueOK
  BY <1>1, <1>2 DEF UniqueOK, Conflict
<1>4. ViewOK
  BY <1>1, ThreadFacts DEF ViewOK, Viewing
<1> QED BY <1>1, <1>3, <1>4 DEF ViewInv, SourceOK, ManifestOK, TornOK

\* ViewInv is inductive relative to Inv.
LEMMA NextViews ==
  ASSUME Inv, ViewInv, [Next]_vars
  PROVE  ViewInv'
<1>0. Inv'
  BY NextInv
<1>1. CASE UNCHANGED vars
  <2>1. UNCHANGED <<wal, torn, segs, manifests, current, up, versions, active, frozen, manifest,
                    error, pc, mutex, snapshot, job, view, promised, overtaken, faults>>
    BY <1>1 DEF vars, disk, buffer, flags, threads, worker, history
  <2>2. UniqueOK'
    BY <2>1 DEF ViewInv, UniqueOK, Everything, Conflict, AllCovered, CoveredBy, Published, Queued,
                SegmentDocs, ManifestSegments
  <2>3. SourceOK'
    BY <2>1, SourceFrame DEF ViewInv
  <2>4. ViewOK'
    BY <2>1 DEF ViewInv, ViewOK, Viewing, Kept, Conflict, AllCovered, CoveredBy, SegmentDocs,
                ManifestSegments, FileIds
  <2>5. ManifestOK' /\ TornOK'
    BY <2>1 DEF ViewInv, ManifestOK, TornOK
  <2> QED BY <2>2, <2>3, <2>4, <2>5 DEF ViewInv
<1>2. CASE Next
  BY <1>0, <1>2, NextActions, PutViews, RefreshViews, ReaderViews, WorkerViews, JobViews, HaltViews,
     OpenViews
<1> QED BY <1>1, <1>2

\* Everything the readers and a restart rely on holds of every reachable state.
THEOREM ViewInvariance == Spec => [](Inv /\ ViewInv)
<1>1. Init => Inv /\ ViewInv
  BY InitInv, InitViews
<1>2. Inv /\ ViewInv /\ [Next]_vars => (Inv /\ ViewInv)'
  BY NextInv, NextViews
<1> QED BY <1>1, <1>2, PTL DEF Spec

\* open_search_view never fails once a generation is published: no publication,
\* merge or reclaim removes a file under it, whatever else is running, and no
\* two segments it opens contradict each other.
THEOREM ViewsOpen == Spec => []NoFailedView
<1>1. ViewInv => NoFailedView
  BY DEF ViewInv, ViewOK, NoFailedView, Viewing
<1> QED BY <1>1, ViewInvariance, PTL

\* A view shows every mutation that a refresh promised before it was opened.
THEOREM ViewsCurrent == Spec => []ViewShowsRefreshed
<1>1. ViewInv => ViewShowsRefreshed
  BY DEF ViewInv, ViewOK, ViewShowsRefreshed, Viewing
<1> QED BY <1>1, ViewInvariance, PTL

\* manifest_ is the generation that CURRENT names whenever no publication is
\* under way and none has failed.
THEOREM ManifestCurrent == Spec => []ManifestMatchesDisk
<1>1. Inv /\ ViewInv => ManifestMatchesDisk
  BY DEF Inv, ViewInv, WriterInv, GenerationOK, ManifestOK, ManifestMatchesDisk
<1> QED BY <1>1, ViewInvariance, PTL

\* The directory opens again after a crash at any point, as long as the log has
\* not outgrown the limit that replay applies to it and append does not.
THEOREM Restart == Spec => [](Len(wal) <= WalLimit => Recoverable)
<1>1. Inv /\ ViewInv => (Len(wal) <= WalLimit => Recoverable)
  BY DEF Inv, ViewInv, WriterInv, GenerationOK, TornOK, Recoverable, Openable
<1> QED BY <1>1, ViewInvariance, PTL

-----------------------------------------------------------------------------
(* A single producer                                                       *)

\* With one producer, the active index is full only while that producer waits
\* for the queue, or after a restart replayed that much: then the queue is
\* empty.  So put never waits for room before it takes its document.
SoloOK(p) ==
  /\ overtaken = {}
  /\ pc[p] # "put_capacity"
  /\ (~error /\ buffered >= MaxBuffered /\ pc[p] \notin {"append", "put_full"}) => frozen = <<>>

\* put alone.
LEMMA SoloPut ==
  ASSUME Inv, NEW p \in Producers, SoloOK(p), PutAction(p)
  PROVE  SoloOK(p)'
<1>0. /\ pc \in [Threads -> ProducerStates \cup CallerStates \cup ReaderStates \cup WorkerStates]
      /\ p \in Threads /\ buffered \in Nat
      /\ frozen \in Seq((SUBSET Mutation) \ {{}}) /\ Len(frozen) \in Nat
      /\ MaxFrozen \in Nat /\ MaxFrozen > 0 /\ MaxBuffered \in Nat /\ MaxBuffered > 0
  BY ThreadFacts, LimitsAssumption DEF Inv, TypeOK, ThreadType, BufferType
<1>1. frozen = <<>> => HasCapacity
  BY <1>0 DEF HasCapacity
<1>2. ASSUME NEW m, PutEnter(p, m), pc[p] \in {"idle", "put_enter"}
      PROVE  SoloOK(p)'
  <2>1. UNCHANGED <<error, overtaken>>
    BY <1>2 DEF PutEnter, flags, history
  <2>2. ~(~error /\ buffered >= MaxBuffered /\ ~HasCapacity)
    BY <1>1, <1>2 DEF SoloOK
  <2>3. CASE UNCHANGED <<buffered, frozen>> /\ pc'[p] \in {"idle", "put_enter", "append"}
    BY <1>2, <2>1, <2>3 DEF SoloOK
  <2>4. CASE FreezeActive /\ pc'[p] \in {"idle", "append"}
    <3>1. buffered' = 0
      BY <2>4 DEF FreezeActive
    <3> QED BY <1>0, <2>1, <2>4, <3>1 DEF SoloOK
  <2> QED BY <1>0, <1>2, <2>2, <2>3, <2>4 DEF PutEnter, PutProceed, PutReturns, SleepAt
<1>3. CASE PutLogged(p)
  <2>1. UNCHANGED <<error, overtaken>>
    BY <1>3 DEF PutLogged, flags
  <2>2. \/ buffered' < MaxBuffered /\ pc'[p] = "idle"
        \/ pc'[p] = "put_full"
    BY <1>0, <1>3 DEF PutLogged, PutReturns, SleepAt
  <2>3. buffered' \in Nat
    BY <1>0, <1>3 DEF PutLogged
  <2> QED BY <1>0, <2>1, <2>2, <2>3 DEF SoloOK
<1>4. CASE PutLogFails(p)
  <2>1. error' /\ UNCHANGED overtaken /\ pc'[p] = "idle"
    BY <1>0, <1>4 DEF PutLogFails, StickyError, PutReturns
  <2> QED BY <2>1 DEF SoloOK
<1>5. CASE PutFull(p)
  <2>1. UNCHANGED <<error, overtaken>>
    BY <1>5 DEF PutFull, flags
  <2>2. \/ error /\ pc'[p] = "idle"
        \/ pc'[p] = "put_full"
        \/ buffered' = 0 /\ pc'[p] = "idle"
    BY <1>0, <1>5 DEF PutFull, PutReturns, SleepAt, FreezeActive
  <2> QED BY <1>0, <2>1, <2>2 DEF SoloOK
<1>6. CASE PutAdmitted(p)
  BY <1>6 DEF PutAdmitted, SoloOK
<1> QED BY <1>2, <1>3, <1>4, <1>5, <1>6 DEF PutAction, PutStep, PutCall, PutReenter

\* The others do not fill the index or the queue behind the producer's back.
LEMMA SoloNext ==
  ASSUME Inv, NEW p, Producers = {p}, SoloOK(p), [Next]_vars
  PROVE  SoloOK(p)'
<1>0. /\ p \in Producers /\ p \in Threads /\ p # Worker /\ p \notin Callers
      /\ frozen \in Seq((SUBSET Mutation) \ {{}})
      /\ MaxBuffered \in Nat /\ MaxBuffered > 0
  BY ThreadFacts, LimitsAssumption DEF Inv, TypeOK, BufferType
<1>s. ASSUME pc'[p] = pc[p], UNCHANGED overtaken, error => error',
             \/ UNCHANGED buffered /\ (frozen = <<>> => frozen' = <<>>)
             \/ buffered' = 0
      PROVE  SoloOK(p)'
  BY <1>0, <1>s DEF SoloOK
<1>1. CASE UNCHANGED vars
  BY <1>1, <1>s DEF vars, buffer, flags, threads, history
<1>2. CASE \E q \in Producers : PutAction(q)
  BY <1>0, <1>2, SoloPut
<1>3. ASSUME NEW c \in Callers, RefreshAction(c) PROVE SoloOK(p)'
  <2>1. pc'[p] = pc[p] /\ UNCHANGED overtaken
    BY <1>0, <1>3, RefreshFrame
  <2>2. error => error'
    BY <1>3 DEF RefreshAction, RefreshReenter, RefreshCapacity, RefreshIdle, RefreshCall,
                RefreshEnter, RefreshReset, RefreshResetFails, StickyError, CloseStop, flags
  <2>3. UNCHANGED <<buffered, frozen>> \/ buffered' = 0
    BY <1>3 DEF RefreshAction, RefreshReenter, RefreshCapacity, RefreshIdle, RefreshCall,
                RefreshEnter, RefreshReset, RefreshResetFails, CloseStop, FreezeActive, buffer
  <2> QED BY <1>s, <2>1, <2>2, <2>3
<1>4. ASSUME NEW r \in Readers, ViewAction(r) PROVE SoloOK(p)'
  <2>1. pc'[p] = pc[p] /\ UNCHANGED <<buffer, flags, history>>
    BY <1>0, <1>4, ViewFrame, ThreadFacts
  <2> QED BY <1>s, <2>1 DEF buffer, flags, history
<1>5. CASE WorkerAction
  <2>1. pc'[p] = pc[p] /\ UNCHANGED <<buffered, history>>
    BY <1>0, <1>5, WorkerFrame
  <2>2. error => error'
    BY <1>5 DEF WorkerAction, WorkerTake, WorkerFlush, WorkerDone, StickyError, CompactAction,
                Compact, CompactNothing, flags
  <2>3. frozen = <<>> => frozen' = <<>>
    BY <1>5 DEF WorkerAction, WorkerTake, WorkerFlush, WorkerDone, CompactAction, Compact,
                CompactNothing, buffer
  <2> QED BY <1>s, <2>1, <2>2, <2>3 DEF history
<1>6. CASE JobStep \/ JobFault
  <2>1. UNCHANGED <<buffer, flags, overtaken>> /\ pc'[p] = pc[p]
    BY <1>0, <1>6, JobFrame
  <2> QED BY <1>s, <2>1 DEF buffer, flags
<1>7. CASE HaltAction
  <2>1. Halt
    BY <1>7 DEF HaltAction, Crash, CloseJoin, CompactOverrun
  <2>2. frozen' = <<>> /\ UNCHANGED overtaken /\ pc'[p] = "idle"
    BY <1>0, <2>1 DEF Halt
  <2> QED BY <2>2 DEF SoloOK
<1>8. CASE Open
  <2>1. ~up /\ UNCHANGED <<frozen, pc, overtaken>>
    BY <1>8 DEF Open, threads, history
  <2>2. frozen = <<>>
    BY <2>1 DEF Inv, WriterInv, DownOK
  <2> QED BY <2>1, <2>2 DEF SoloOK
<1> QED BY <1>1, <1>2, <1>3, <1>4, <1>5, <1>6, <1>7, <1>8, NextActions

\* A writer with a single producer thread keeps every acknowledged mutation:
\* whatever the worker, refreshes, merges, readers, I/O failures and crashes do,
\* a restart brings it back.  (With two producers put can lose one: AckedDurable
\* is violated there, through a put that waits for room while refresh runs.)
THEOREM SoloDurability ==
  ASSUME NEW p, Producers = {p}
  PROVE  Spec => []AckedDurable
<1>1. Init => SoloOK(p)
  <2> SUFFICES ASSUME Init PROVE SoloOK(p)
    OBVIOUS
  <2>1. p \in Threads /\ p # Worker
    BY ThreadFacts
  <2>2. overtaken = {} /\ frozen = <<>> /\ pc[p] = "idle"
    BY <2>1 DEF Init
  <2> QED BY <2>2 DEF SoloOK
<1>2. Inv /\ SoloOK(p) /\ [Next]_vars => SoloOK(p)'
  BY SoloNext
<1>3. SoloOK(p) /\ DurableUnlessOvertaken => AckedDurable
  BY DEF SoloOK, DurableUnlessOvertaken, AckedDurable
<1> QED BY <1>1, <1>2, <1>3, Invariance, Durability, PTL DEF Spec
=============================================================================
