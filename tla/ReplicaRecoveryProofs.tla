------------------------ MODULE ReplicaRecoveryProofs ------------------------
(***************************************************************************)
(* RecoveryInv is an inductive invariant of ReplicaRecovery, for every     *)
(* sequence of mutations, any limit of the log and any number of crashes,  *)
(* power failures and failed writes.  From it follow, for every owner, the *)
(* faithfulness of the replica and that it accepts the next record, and,   *)
(* for one that appends only what replay accepts and has created the log,  *)
(* the durability of what was appended and that it can be started again.   *)
(*                                                                         *)
(* The heart of it is what the log, the bytes of it that are fsynced, the  *)
(* snapshot and the one that the directory on disk has must keep between   *)
(* them: a crash keeps the first and the third, a power failure any mix.   *)
(***************************************************************************)
EXTENDS ReplicaRecovery, TLAPS

Document == [id : STRING \ {""}, version : Nat, deleted : BOOLEAN, valid : {TRUE}]

States == {"down", "replay", "refused", "idle", "append", "append_sync", "reset_sync",
           "snapshot_sync", "snapshot_rename", "directory_sync"}

\* The replica serves: it is not down or being recovered.
Live(state) == state \in States \ {"down", "replay", "refused"}

\* A log file holds records of the first c, in whatever order they were
\* appended.
FileOK(file, c) ==
  /\ file.entries \in Seq({Wrap(RecordAt(n)) : n \in 1..c})
  /\ file = [exists |-> file.exists, entries |-> file.entries, torn |-> file.torn]
  /\ ~file.exists => file.entries = <<>>

\* A snapshot is the image of the prefix that its sequence names.
SnapshotOK(file, c) ==
  /\ file.sequence \in 0..c
  /\ file.documents = Image(file.sequence)
  /\ file.synced = TRUE

\* A replica is the image of a prefix, and remembers operations of it only.
ReplicaOK(replica, c) ==
  /\ replica.applied \in 0..c
  /\ replica.operations \subseteq {RecordAt(n) : n \in 1..replica.applied}
  /\ replica = [shard |-> Shard, epoch |-> Epoch, applied |-> replica.applied,
                health |-> "healthy", documents |-> Image(replica.applied),
                operations |-> replica.operations]

FilesOK ==
  /\ committed \in 0..Len(Mutations)
  /\ FileOK(log, committed) /\ FileOK(logDisk, committed)
  /\ SnapshotOK(snapshot, committed) /\ SnapshotOK(snapshotDisk, committed)

NodeOK ==
  /\ pc \in States \ {"refused"}
  /\ pc # "down" => ReplicaOK(node, committed)
  /\ pc \in {"append", "append_sync"} => node.applied > 0
  /\ pc \in {"snapshot_sync", "snapshot_rename"} =>
       temporary = [sequence |-> node.applied, documents |-> node.documents,
                    synced |-> (pc = "snapshot_rename")]
  /\ pc = "reset_sync" => checkpoint = node.applied
  /\ pc = "replay" => /\ ReplaySucceeds(log)
                      /\ node.applied <= Len(log.entries)
                      /\ snapshot.sequence <= Len(log.entries)

\* Snapshots follow one another, and a replica that serves is not older.
SnapshotOrder ==
  /\ checkpoint \in Nat
  /\ checkpoint <= snapshotDisk.sequence /\ snapshotDisk.sequence <= snapshot.sequence
  /\ Live(pc) => snapshot.sequence <= node.applied

\* The file has the records up to n, and they can be replayed.
Holds(file, n) == ReplaySucceeds(file) /\ n <= Len(file.entries)

\* The owner does what keeps the log readable, and its name on disk.
Sure == Prudent /\ LogCreated

\* What is acknowledged is in the snapshot on disk, or in the log and in its
\* fsynced bytes, if the owner takes care; a replica that serves has it.
AckedOK ==
  /\ acked \subseteq Nat \ {0}
  /\ Sure => \A n \in acked : \/ n <= snapshotDisk.sequence
                              \/ Holds(log, n) /\ Holds(logDisk, n)
  /\ (Live(pc) /\ Sure) => \A n \in acked : n <= node.applied

\* What the owner's care gives, in the log, on disk and in the append that
\* is under way; and the record that an append has written.
LogOK ==
  /\ LogCreated => log.exists = TRUE /\ logEntry = TRUE
  /\ Prudent => ReplaySucceeds(log) /\ ReplaySucceeds(logDisk)
  /\ (Prudent /\ pc = "append") => ReplaySucceeds(Written(log, Wrap(RecordAt(node.applied))))
  /\ pc = "append_sync" => /\ log.entries # <<>>
                           /\ log.entries[Len(log.entries)] = Wrap(RecordAt(node.applied))

RecoveryInv == FilesOK /\ NodeOK /\ SnapshotOrder /\ AckedOK /\ LogOK

-----------------------------------------------------------------------------
(* Records, images and log files                                           *)

\* There are so many mutations.
LEMMA Length == Len(Mutations) \in Nat
<1>1. \A S, s : s \in Seq(S) => Len(s) \in Nat
  OBVIOUS
<1> QED BY <1>1, RecoveryAssumption, Zenon

\* And there is a limit to what replay reads.
LEMMA Limit == MaxLogRecords \in Nat
BY RecoveryAssumption, Zenon

\* The sequences and what they are made of.
LEMMA ConstantFacts ==
  /\ Len(Mutations) \in Nat /\ Shard # 0 /\ Epoch # 0
  /\ \A n \in 1..Len(Mutations) :
       /\ Mutations[n] \in Document /\ Mutations[n].id # "" /\ Mutations[n].valid
       /\ Mutations[n].version \in Nat
       /\ OperationNames[n] # ""
  /\ \A i, j \in 1..Len(Mutations) :
       /\ i < j /\ Mutations[i].id = Mutations[j].id => Mutations[i].version < Mutations[j].version
       /\ OperationNames[i] = OperationNames[j] => i = j
<1>1. Mutations \in Seq(Document) /\ Len(Mutations) \in Nat
  BY RecoveryAssumption, Length, Zenon DEF Document
<1>2. \A n \in 1..Len(Mutations) : Mutations[n] \in Document
  BY <1>1
<1>3. \A d \in Document : d.id # "" /\ d.valid /\ d.version \in Nat
  <2>1. \A d \in Document : d.id \in STRING \ {""} /\ d.valid \in {TRUE} /\ d.version \in Nat
    BY DEF Document
  <2> QED BY <2>1, Zenon
<1>4. \A n \in 1..Len(Mutations) : OperationNames[n] # ""
  <2>1. OperationNames \in Seq(STRING \ {""}) /\ Len(OperationNames) = Len(Mutations)
    BY RecoveryAssumption, Zenon
  <2>2. \A S : OperationNames \in Seq(S) => \A n \in 1..Len(OperationNames) : OperationNames[n] \in S
    OBVIOUS
  <2>3. \A n \in 1..Len(Mutations) : OperationNames[n] \in STRING \ {""}
    BY <2>1, <2>2, Zenon
  <2> QED BY <2>3, Zenon
<1>5. Shard # 0 /\ Epoch # 0
  BY RecoveryAssumption, Zenon
<1>6. \A n \in 1..Len(Mutations) :
        Mutations[n].id # "" /\ Mutations[n].valid /\ Mutations[n].version \in Nat
  BY <1>2, <1>3, Zenon
<1>7. \A i, j \in 1..Len(Mutations) :
        /\ i < j /\ Mutations[i].id = Mutations[j].id => Mutations[i].version < Mutations[j].version
        /\ OperationNames[i] = OperationNames[j] => i = j
  BY RecoveryAssumption, Zenon
<1> QED BY <1>1, <1>2, <1>4, <1>5, <1>6, <1>7, Zenon

\* A record comes out of the log as it went in.
LEMMA WrapUnwrap ==
  ASSUME NEW n \in 1..Len(Mutations)
  PROVE  /\ Unwrap(Wrap(RecordAt(n))) = RecordAt(n)
         /\ Wrap(RecordAt(n)).version = n /\ EntryValid(Wrap(RecordAt(n)), n)
         /\ RecordAt(n).sequence = n /\ RecordAt(n).op = OperationNames[n]
<1>1. Mutations[n] \in Document /\ OperationNames[n] # ""
  BY ConstantFacts
<1>2. Mutations[n] = [id |-> Mutations[n].id, version |-> Mutations[n].version,
                      deleted |-> Mutations[n].deleted, valid |-> Mutations[n].valid]
  BY <1>1 DEF Document
<1> QED BY <1>1, <1>2 DEF Unwrap, Wrap, RecordAt, EntryValid

\* The image grows by the next mutation, which put accepts.
LEMMA ImageNext ==
  ASSUME NEW k \in Nat, k < Len(Mutations)
  PROVE  /\ ~PutRefused(Image(k), Mutations[k + 1])
         /\ WithDocument(Image(k), Mutations[k + 1]) = Image(k + 1)
<1> DEFINE doc == Mutations[k + 1]
<1>0. /\ Len(Mutations) \in Nat /\ k + 1 \in 1..Len(Mutations)
      /\ \A i \in 1..k : i \in 1..Len(Mutations) /\ i < k + 1
      /\ \A i : i \in 1..(k + 1) <=> i \in 1..k \/ i = k + 1
  BY Length
<1>1. ~PutRefused(Image(k), doc)
  <2>1. doc.valid
    BY <1>0, ConstantFacts
  <2>2. ASSUME NEW known \in Image(k), known.id = doc.id, doc.version <= known.version
        PROVE  FALSE
    <3>1. PICK i \in 1..k : known = Mutations[i]
      BY DEF Image
    <3>2. Mutations[i].version < doc.version
      BY <1>0, <2>2, <3>1, ConstantFacts
    <3>3. Mutations[i].version \in Nat /\ doc.version \in Nat
      BY <1>0, ConstantFacts
    <3> QED BY <2>2, <3>1, <3>2, <3>3
  <2> QED BY <2>1, <2>2 DEF PutRefused
<1>2. ASSUME NEW d \in WithDocument(Image(k), doc) PROVE d \in Image(k + 1)
  <2>1. CASE d = doc
    <3>1. \A j \in 1..(k + 1) : j <= k + 1
      OBVIOUS
    <3> QED BY <1>0, <2>1, <3>1 DEF Image
  <2>2. CASE d # doc
    <3>1. d \in Image(k) /\ d.id # doc.id
      BY <1>2, <2>2 DEF WithDocument
    <3>2. PICK i \in 1..k : d = Mutations[i]
                            /\ \A j \in 1..k : Mutations[j].id = Mutations[i].id => j <= i
      BY <3>1 DEF Image
    <3>3. \A j \in 1..(k + 1) : Mutations[j].id = Mutations[i].id => j <= i
      BY <1>0, <3>1, <3>2
    <3> QED BY <1>0, <3>2, <3>3 DEF Image
  <2> QED BY <2>1, <2>2
<1>3. ASSUME NEW d \in Image(k + 1) PROVE d \in WithDocument(Image(k), doc)
  <2>1. PICK i \in 1..(k + 1) :
          d = Mutations[i] /\ \A j \in 1..(k + 1) : Mutations[j].id = Mutations[i].id => j <= i
    BY <1>3 DEF Image
  <2>2. CASE i = k + 1
    BY <2>1, <2>2 DEF WithDocument
  <2>3. CASE i # k + 1
    <3>1. i \in 1..k
      BY <1>0, <2>3
    <3>2. d \in Image(k)
      BY <1>0, <2>1, <3>1 DEF Image
    <3>3. d.id # doc.id
      <4>1. ~(k + 1 <= i)
        BY <3>1
      <4> QED BY <1>0, <2>1, <4>1
    <3> QED BY <3>2, <3>3 DEF WithDocument
  <2> QED BY <2>2, <2>3
<1> QED BY <1>1, <1>2, <1>3

\* Nothing applied leaves nothing, and a snapshot of something opens.
LEMMA ImageFacts ==
  /\ Image(0) = {}
  /\ \A c \in 0..Len(Mutations) : \A file :
       SnapshotOK(file, c) => (SnapshotOpens(file) <=> file.sequence > 0)
<1>1. Image(0) = {}
  BY DEF Image
<1>2. ASSUME NEW c \in 0..Len(Mutations), NEW file, SnapshotOK(file, c)
      PROVE  SnapshotOpens(file) <=> file.sequence > 0
  <2>1. \A n \in 1..file.sequence : n \in 1..Len(Mutations)
    BY <1>2, Length DEF SnapshotOK
  <2>2. \A doc \in file.documents : doc.valid
    BY <1>2, <2>1, ConstantFacts DEF SnapshotOK, Image
  <2> QED BY <2>2 DEF SnapshotOpens
<1> QED BY <1>1, <1>2

\* What a replica that is the image of a prefix consists of.
LEMMA ReplicaFacts ==
  ASSUME NEW R, NEW c \in 0..Len(Mutations), ReplicaOK(R, c)
  PROVE  /\ R.applied \in Nat /\ R.applied <= c /\ R.applied <= Len(Mutations)
         /\ R.shard = Shard /\ R.epoch = Epoch /\ R.health = "healthy"
         /\ R.documents = Image(R.applied)
         /\ \A known \in R.operations : \E n \in 1..R.applied : known = RecordAt(n)
<1>1. R.applied \in Nat /\ R.applied <= c /\ R.applied <= Len(Mutations)
  BY Length DEF ReplicaOK
<1>2. \A known \in R.operations : \E n \in 1..R.applied : known = RecordAt(n)
  BY DEF ReplicaOK
<1>3. R = [shard |-> Shard, epoch |-> Epoch, applied |-> R.applied,
           health |-> "healthy", documents |-> Image(R.applied), operations |-> R.operations]
  BY Zenon DEF ReplicaOK
<1>4. /\ R.shard = Shard /\ R.epoch = Epoch /\ R.health = "healthy"
      /\ R.documents = Image(R.applied)
  BY <1>3
<1> QED BY <1>1, <1>2, <1>4, Zenon

\* What apply does to the record that a replica is.
LEMMA ApplyEffect ==
  ASSUME NEW R, NEW record, ApplyOutcome(R, record) = "applied",
         R = [shard |-> R.shard, epoch |-> R.epoch, applied |-> R.applied,
              health |-> R.health, documents |-> R.documents, operations |-> R.operations]
  PROVE  Apply(R, record)
         = [shard |-> R.shard, epoch |-> R.epoch, applied |-> record.sequence,
            health |-> R.health, documents |-> WithDocument(R.documents, record.doc),
            operations |-> R.operations \cup {record}]
<1> DEFINE d == WithDocument(R.documents, record.doc)
           o == R.operations \cup {record}
           N == [R EXCEPT !.applied = record.sequence, !.documents = d, !.operations = o]
           Type == [shard : {R.shard}, epoch : {R.epoch}, health : {R.health},
                    applied : {R.applied, record.sequence}, documents : {R.documents, d},
                    operations : {R.operations, o}]
<1>0. Apply(R, record) = N
  BY Zenon DEF Apply
<1> HIDE DEF d, o
<1>1. R \in Type
  OBVIOUS
<1>2. N \in Type /\ N.applied = record.sequence /\ N.documents = d /\ N.operations = o
  BY <1>1
<1> HIDE DEF N
<1>3. N.shard = R.shard /\ N.epoch = R.epoch /\ N.health = R.health
  BY <1>2
<1>4. N = [shard |-> N.shard, epoch |-> N.epoch, applied |-> N.applied, health |-> N.health,
           documents |-> N.documents, operations |-> N.operations]
  BY <1>2
<1> QED BY <1>0, <1>2, <1>3, <1>4, Zenon DEF d, o

\* The next record of the primary's log is applied, and the replica is the
\* image of a longer prefix.
LEMMA ApplyNext ==
  ASSUME NEW R, NEW c \in 0..Len(Mutations), ReplicaOK(R, c), R.applied < c
  PROVE  LET record == RecordAt(R.applied + 1) IN
           /\ ApplyOutcome(R, record) = "applied"
           /\ Apply(R, record).applied = R.applied + 1
           /\ ReplicaOK(Apply(R, record), c)
<1> DEFINE k == R.applied  record == RecordAt(k + 1)
<1>0. k \in Nat /\ k + 1 \in 1..Len(Mutations) /\ k < Len(Mutations) /\ k + 1 \in 0..c
  BY ReplicaFacts, Length
<1>1. record.shard = R.shard /\ record.epoch = R.epoch /\ record.op = OperationNames[k + 1]
      /\ record.sequence = k + 1 /\ record.doc = Mutations[k + 1]
  BY ReplicaFacts DEF RecordAt
<1>2. record.op # ""
  BY <1>0, <1>1, ConstantFacts
<1>3. ~Remembers(R, record.op) /\ record \notin R.operations
  <2>1. \A n \in 1..k : n \in 1..Len(Mutations) /\ n # k + 1
    BY <1>0, Length
  <2>2. \A n \in 1..k : RecordAt(n).op # record.op
    <3>1. \A n \in 1..k : RecordAt(n).op = OperationNames[n]
      BY DEF RecordAt
    <3>2. \A n \in 1..k : OperationNames[n] # OperationNames[k + 1]
      BY <1>0, <2>1, ConstantFacts
    <3> QED BY <1>1, <3>1, <3>2, Zenon
  <2>3. \A known \in R.operations : known.op # record.op
    BY <2>2, ReplicaFacts, Zenon
  <2> QED BY <2>3, Zenon DEF Remembers
<1>4. /\ ~PutRefused(R.documents, record.doc)
      /\ WithDocument(R.documents, record.doc) = Image(k + 1)
  BY <1>0, <1>1, ReplicaFacts, ImageNext
<1>5. ~(record.sequence <= k) /\ ~(record.sequence # k + 1)
  <2>1. \A x \in Nat : ~(x + 1 <= x)
    OBVIOUS
  <2> QED BY <1>0, <1>1, <2>1, Zenon
<1>6. ApplyOutcome(R, record) = "applied"
  BY <1>1, <1>2, <1>3, <1>4, <1>5, Zenon DEF ApplyOutcome
<1> DEFINE next == Apply(R, record)
<1>8. next = [shard |-> Shard, epoch |-> Epoch, applied |-> k + 1, health |-> "healthy",
              documents |-> Image(k + 1), operations |-> R.operations \cup {record}]
  <2>1. R = [shard |-> Shard, epoch |-> Epoch, applied |-> R.applied, health |-> "healthy",
             documents |-> Image(R.applied), operations |-> R.operations]
    BY Zenon DEF ReplicaOK
  <2>2. R = [shard |-> R.shard, epoch |-> R.epoch, applied |-> R.applied, health |-> R.health,
             documents |-> R.documents, operations |-> R.operations]
    BY <2>1, ReplicaFacts, Zenon
  <2>3. next = [shard |-> R.shard, epoch |-> R.epoch, applied |-> record.sequence,
                health |-> R.health, documents |-> WithDocument(R.documents, record.doc),
                operations |-> R.operations \cup {record}]
    BY <1>6, <2>2, ApplyEffect, Zenon
  <2> HIDE DEF next, record
  <2> QED BY <1>1, <1>4, <2>3, ReplicaFacts, Zenon
<1>9. R.operations \cup {record} \subseteq {RecordAt(n) : n \in 1..(k + 1)}
  <2>1. \A n \in 1..k : n \in 1..(k + 1)
    BY <1>0
  <2>2. k + 1 \in 1..(k + 1)
    BY <1>0
  <2> QED BY <2>1, <2>2, ReplicaFacts, Zenon
<1>10. ReplicaOK(next, c)
  <2>1. next.applied = k + 1 /\ next.operations = R.operations \cup {record}
    BY <1>8
  <2> HIDE DEF next, record
  <2> QED BY <1>0, <1>8, <1>9, <2>1, Zenon DEF ReplicaOK
<1>11. next.applied = k + 1
  BY <1>8
<1> QED BY <1>6, <1>10, <1>11, Zenon

\* A record that is applied is the next one.
LEMMA AppliedIsNext ==
  ASSUME NEW R, NEW n, ApplyOutcome(R, RecordAt(n)) = "applied"
  PROVE  n = R.applied + 1
<1>1. RecordAt(n).sequence = n
  BY DEF RecordAt
<1>2. "applied" \notin {"wrong_shard", "wrong_epoch", "conflicting_operation", "duplicate",
                        "stale_sequence", "sequence_gap", "mutation_error"}
  OBVIOUS
<1> QED BY <1>1, <1>2, Zenon DEF ApplyOutcome

\* A record of the prefix is not applied again, whether the replica remembers
\* its operation or not.
LEMMA ApplyOld ==
  ASSUME NEW R, NEW c \in 0..Len(Mutations), ReplicaOK(R, c), NEW n \in 1..R.applied
  PROVE  ApplyOutcome(R, RecordAt(n)) \in {"duplicate", "stale_sequence"}
<1> DEFINE record == RecordAt(n)
<1>0. n \in 1..Len(Mutations) /\ n <= R.applied
  BY ReplicaFacts, Length
<1>1. record.shard = R.shard /\ record.epoch = R.epoch /\ record.op = OperationNames[n]
      /\ record.sequence = n
  BY ReplicaFacts DEF RecordAt
<1>2. record.op # ""
  BY <1>0, <1>1, ConstantFacts
<1>3. Remembers(R, record.op) => record \in R.operations
  <2> SUFFICES ASSUME NEW known \in R.operations, known.op = record.op
               PROVE  known = record
    BY Zenon DEF Remembers
  <2>1. PICK m \in 1..R.applied : known = RecordAt(m)
    BY ReplicaFacts
  <2>2. m \in 1..Len(Mutations) /\ RecordAt(m).op = OperationNames[m]
    BY ReplicaFacts, Length DEF RecordAt
  <2>3. m = n
    BY <1>0, <1>1, <2>1, <2>2, ConstantFacts, Zenon
  <2> QED BY <2>1, <2>3
<1>4. CASE record \in R.operations
  BY <1>1, <1>2, <1>4, Zenon DEF ApplyOutcome
<1>5. CASE record \notin R.operations
  BY <1>0, <1>1, <1>2, <1>3, <1>5, Zenon DEF ApplyOutcome
<1> QED BY <1>4, <1>5

\* The entries of a log file.
LEMMA FileFacts ==
  ASSUME NEW c \in 0..Len(Mutations), NEW file, FileOK(file, c)
  PROVE  /\ Len(file.entries) \in Nat /\ DOMAIN file.entries = 1..Len(file.entries)
         /\ \A i \in 1..Len(file.entries) : \E n \in 1..c : file.entries[i] = Wrap(RecordAt(n))
<1> DEFINE S == {Wrap(RecordAt(n)) : n \in 1..c}
<1>1. file.entries \in Seq(S)
  BY Zenon DEF FileOK
<1> HIDE DEF S
<1>2. /\ Len(file.entries) \in Nat /\ DOMAIN file.entries = 1..Len(file.entries)
      /\ \A i \in 1..Len(file.entries) : file.entries[i] \in S
  BY <1>1
<1> QED BY <1>2, Zenon DEF S

\* A log that can be replayed holds the first records in their order.
LEMMA ReplayedEntry ==
  ASSUME NEW c \in 0..Len(Mutations), NEW file, FileOK(file, c), ReplaySucceeds(file),
         NEW i \in 1..Len(file.entries)
  PROVE  i \in 1..c /\ Unwrap(file.entries[i]) = RecordAt(i)
<1>1. PICK n \in 1..c : file.entries[i] = Wrap(RecordAt(n))
  BY FileFacts
<1>2. n \in 1..Len(Mutations)
  BY Length
<1>3. file.entries[i].version = i
  BY FileFacts, Zenon DEF ReplaySucceeds, EntryValid
<1>4. n = i
  BY <1>1, <1>2, <1>3, WrapUnwrap, Zenon
<1> QED BY <1>1, <1>2, <1>4, WrapUnwrap, Zenon

\* And is not longer than the primary's.
LEMMA ReplayedLength ==
  ASSUME NEW c \in 0..Len(Mutations), NEW file, FileOK(file, c), ReplaySucceeds(file)
  PROVE  Len(file.entries) \in 0..c
<1>1. Len(file.entries) \in Nat /\ c \in Nat
  BY FileFacts, Length
<1>2. CASE Len(file.entries) = 0
  BY <1>1, <1>2
<1>3. CASE Len(file.entries) # 0
  <2>1. Len(file.entries) \in 1..Len(file.entries)
    BY <1>1, <1>3
  <2>2. Len(file.entries) \in 1..c
    BY <2>1, ReplayedEntry, Zenon
  <2> QED BY <2>2
<1> QED BY <1>2, <1>3

\* A record more in the log: it can be replayed only if it could be and the
\* record is the next.
Longer(file, next, n) ==
  /\ Len(next.entries) = Len(file.entries) + 1
  /\ next.entries # <<>> /\ next.entries[Len(next.entries)] = Wrap(RecordAt(n))
  /\ ReplaySucceeds(next) => ReplaySucceeds(file) /\ n = Len(file.entries) + 1

\* What append leaves of a log file.
LEMMA WrittenFacts ==
  ASSUME NEW c \in 0..Len(Mutations), NEW file, FileOK(file, c), NEW n \in 1..c,
         NEW next, next = Written(file, Wrap(RecordAt(n)))
  PROVE  FileOK(next, c) /\ next.exists = TRUE /\ Longer(file, next, n)
<1> DEFINE e == Wrap(RecordAt(n))  L == Len(file.entries)
           S == {Wrap(RecordAt(m)) : m \in 1..c}
<1>1. file.entries \in Seq(S) /\ e \in S
  BY Zenon DEF FileOK
<1>2. next = [exists |-> TRUE, entries |-> Append(file.entries, e), torn |-> FALSE]
  BY Zenon DEF Written
<1>3. next.entries = Append(file.entries, e) /\ next.exists = TRUE /\ next.torn = FALSE
  BY <1>2
<1>e. EntryValid(e, n) /\ e.version = n
  <2>1. n \in 1..Len(Mutations)
    BY Length
  <2> QED BY <2>1, WrapUnwrap, Zenon
<1> HIDE DEF e, S
<1>4. /\ L \in Nat /\ DOMAIN file.entries = 1..L
      /\ Append(file.entries, e) \in Seq(S) /\ Len(Append(file.entries, e)) = L + 1
      /\ DOMAIN Append(file.entries, e) = 1..(L + 1)
      /\ \A i \in 1..L : Append(file.entries, e)[i] = file.entries[i]
      /\ Append(file.entries, e)[L + 1] = e
      /\ Append(file.entries, e) # <<>>
  BY <1>1
<1>5. FileOK(next, c)
  <2>1. next = [exists |-> next.exists, entries |-> next.entries, torn |-> next.torn]
    BY <1>2, <1>3, Zenon
  <2>2. next.entries \in Seq({Wrap(RecordAt(m)) : m \in 1..c})
    BY <1>3, <1>4, Zenon DEF S
  <2> QED BY <1>3, <2>1, <2>2, Zenon DEF FileOK
<1>6. ASSUME ReplaySucceeds(next) PROVE ReplaySucceeds(file) /\ n = L + 1
  <2>1. \A i : i \in 1..(L + 1) <=> i \in 1..L \/ i = L + 1
    BY <1>4
  <2>2. /\ \A i \in 1..L : EntryValid(file.entries[i], i)
        /\ EntryValid(e, L + 1) /\ L + 1 <= MaxLogRecords
    BY <1>3, <1>4, <1>6, <2>1, Zenon DEF ReplaySucceeds, WithinLimits
  <2>3. n = L + 1
    BY <1>e, <2>2, Zenon DEF EntryValid
  <2>4. L <= MaxLogRecords
    BY <1>4, <2>2, Limit
  <2> QED BY <1>4, <2>2, <2>3, <2>4, Zenon DEF ReplaySucceeds, WithinLimits
<1> QED BY <1>3, <1>4, <1>5, <1>6, Zenon DEF e, Longer

\* The other files a step may leave have the entries of one there was.
LEMMA SameEntries ==
  ASSUME NEW file, NEW other, other.entries = file.entries
  PROVE  /\ ReplaySucceeds(other) <=> ReplaySucceeds(file)
         /\ \A n : Holds(other, n) <=> Holds(file, n)
BY Zenon DEF ReplaySucceeds, WithinLimits, Holds

\* A part of a record more, or less: the entries stay.
LEMMA FileChanges ==
  ASSUME NEW c \in 0..Len(Mutations), NEW file, FileOK(file, c)
  PROVE  /\ FileOK(PartlyWritten(file), c) /\ PartlyWritten(file).entries = file.entries
         /\ PartlyWritten(file).exists = TRUE
         /\ FileOK(Repaired(file), c) /\ Repaired(file).entries = file.entries
         /\ Repaired(file).exists = file.exists
         /\ FileOK([file EXCEPT !.exists = TRUE], c)
         /\ [file EXCEPT !.exists = TRUE].entries = file.entries
         /\ [file EXCEPT !.exists = TRUE].exists = TRUE
<1> DEFINE e == file.exists  s == file.entries  t == file.torn
           Type == [exists : {e, TRUE}, entries : {s}, torn : {t, TRUE, FALSE}]
<1>1. file \in Type
  BY DEF FileOK
<1>2. ASSUME NEW g, g \in Type PROVE FileOK(g, c) /\ g.entries = s
  <2>1. g.entries = s /\ g.exists \in {e, TRUE}
    BY <1>2
  <2>2. g = [exists |-> g.exists, entries |-> g.entries, torn |-> g.torn]
    BY <1>2
  <2> QED BY <2>1, <2>2, Zenon DEF FileOK
<1> HIDE DEF e, s, t
<1>3. PartlyWritten(file) \in Type /\ PartlyWritten(file).exists = TRUE
  BY <1>1 DEF PartlyWritten
<1>4. Repaired(file) \in Type /\ Repaired(file).exists = e
  BY <1>1 DEF Repaired, e, WithinLimits
<1> DEFINE g == [file EXCEPT !.exists = TRUE]
<1>5. g \in Type /\ g.exists = TRUE
  BY <1>1
<1> HIDE DEF g, Type
<1> QED BY <1>2, <1>3, <1>4, <1>5, Zenon DEF g, s, e

\* The primary commits more: what was an image, a snapshot or a log still is.
LEMMA Grows ==
  ASSUME NEW c \in 0..Len(Mutations), NEW d \in 0..Len(Mutations), c <= d
  PROVE  \A x : /\ FileOK(x, c) => FileOK(x, d)
                /\ SnapshotOK(x, c) => SnapshotOK(x, d)
                /\ ReplicaOK(x, c) => ReplicaOK(x, d)
<1>1. 0..c \subseteq 0..d /\ 1..c \subseteq 1..d
  BY Length
<1>2. ASSUME NEW x, FileOK(x, c) PROVE FileOK(x, d)
  <2> DEFINE S == {Wrap(RecordAt(n)) : n \in 1..c}  T == {Wrap(RecordAt(n)) : n \in 1..d}
  <2>1. S \subseteq T
    BY <1>1, Zenon
  <2>2. x.entries \in Seq(S)
    BY <1>2, Zenon DEF FileOK
  <2>3. \A A, B, s : s \in Seq(A) /\ A \subseteq B => s \in Seq(B)
    OBVIOUS
  <2>4. x.entries \in Seq(T)
    BY <2>1, <2>2, <2>3, Zenon
  <2> QED BY <1>2, <2>4, Zenon DEF FileOK
<1>3. ASSUME NEW x, SnapshotOK(x, c) PROVE SnapshotOK(x, d)
  BY <1>1, <1>3, Zenon DEF SnapshotOK
<1>4. ASSUME NEW x, ReplicaOK(x, c) PROVE ReplicaOK(x, d)
  BY <1>1, <1>4, Zenon DEF ReplicaOK
<1> QED BY <1>2, <1>3, <1>4, Zenon

\* The numbers that the invariant speaks of.
LEMMA Numbers ==
  ASSUME RecoveryInv
  PROVE  /\ committed \in Nat /\ committed \in 0..Len(Mutations)
         /\ snapshot.sequence \in Nat /\ snapshotDisk.sequence \in Nat /\ checkpoint \in Nat
         /\ snapshot.sequence <= committed
         /\ Len(log.entries) \in Nat /\ Len(logDisk.entries) \in Nat
         /\ pc # "down" => node.applied \in Nat /\ node.applied <= committed
         /\ \A n \in acked : n \in Nat
<1>1. committed \in Nat /\ committed \in 0..Len(Mutations)
  BY Length DEF RecoveryInv, FilesOK
<1>2. /\ snapshot.sequence \in 0..committed /\ snapshotDisk.sequence \in 0..committed
      /\ checkpoint \in Nat
  BY Zenon DEF RecoveryInv, FilesOK, SnapshotOK, SnapshotOrder
<1>3. Len(log.entries) \in Nat /\ Len(logDisk.entries) \in Nat
  BY <1>1, FileFacts, Zenon DEF RecoveryInv, FilesOK
<1>4. pc # "down" => node.applied \in 0..committed
  BY Zenon DEF RecoveryInv, NodeOK, ReplicaOK
<1>5. acked \subseteq Nat \ {0}
  BY Zenon DEF RecoveryInv, AckedOK
<1> QED BY <1>1, <1>2, <1>3, <1>4, <1>5

-----------------------------------------------------------------------------
(* Every step keeps the invariant                                          *)

\* The primary goes on by itself.
LEMMA CommitStep ==
  ASSUME RecoveryInv, Commit
  PROVE  RecoveryInv'
<1>0. /\ committed < Len(Mutations) /\ committed' = committed + 1
      /\ UNCHANGED <<node, pc, log, logDisk, logEntry, temporary, snapshot, snapshotDisk,
                     acked, checkpoint>>
  BY Zenon DEF Commit, files, history
<1>1. /\ committed \in 0..Len(Mutations) /\ committed' \in 0..Len(Mutations)
      /\ committed <= committed'
  BY <1>0, Numbers, Length
<1>2. \A x : /\ FileOK(x, committed) => FileOK(x, committed')
             /\ SnapshotOK(x, committed) => SnapshotOK(x, committed')
             /\ ReplicaOK(x, committed) => ReplicaOK(x, committed')
  BY <1>1, Grows
<1>3. FilesOK'
  BY <1>0, <1>1, <1>2, Zenon DEF RecoveryInv, FilesOK
<1>4. NodeOK'
  BY <1>0, <1>2, Zenon DEF RecoveryInv, NodeOK
<1>5. SnapshotOrder' /\ AckedOK' /\ LogOK'
  BY <1>0, Zenon DEF RecoveryInv, SnapshotOrder, AckedOK, LogOK
<1> QED BY <1>3, <1>4, <1>5, Zenon DEF RecoveryInv

\* The states in which the replica serves.
LEMMA LiveStates ==
  /\ Live("idle") /\ Live("append") /\ Live("append_sync") /\ Live("reset_sync")
  /\ Live("snapshot_sync") /\ Live("snapshot_rename") /\ Live("directory_sync")
  /\ ~Live("down") /\ ~Live("replay")
  /\ {"down", "replay", "idle", "append", "append_sync", "reset_sync", "snapshot_sync",
      "snapshot_rename", "directory_sync"} \subseteq States \ {"refused"}
BY DEF Live, States

\* A delivered record is the next one; a prudent owner appends it if replay
\* will accept it.
LEMMA DeliverStep ==
  ASSUME RecoveryInv, NEW n \in DOMAIN Mutations, Deliver(n)
  PROVE  RecoveryInv'
<1>0. /\ pc = "idle" /\ n <= committed /\ ApplyOutcome(node, RecordAt(n)) = "applied"
      /\ node' = Apply(node, RecordAt(n)) /\ pc' \in {"append", "idle"}
      /\ pc' = "append" => Appends(RecordAt(n))
      /\ UNCHANGED <<committed, log, logDisk, logEntry, temporary, snapshot, snapshotDisk,
                     acked, checkpoint>>
  BY Zenon DEF Deliver, files, history
<1>1. ReplicaOK(node, committed) /\ node.applied \in Nat /\ committed \in 0..Len(Mutations)
  BY <1>0, Numbers, Zenon DEF RecoveryInv, NodeOK
<1>2. n = node.applied + 1 /\ node.applied < committed
  <2>1. n = node.applied + 1
    BY <1>0, AppliedIsNext, Zenon
  <2> QED BY <1>0, <1>1, <2>1, Length
<1>3. ReplicaOK(node', committed) /\ node'.applied = node.applied + 1
  BY <1>0, <1>1, <1>2, ApplyNext, Zenon
<1>4. FilesOK'
  BY <1>0, Zenon DEF RecoveryInv, FilesOK
<1>5. NodeOK'
  <2>1. node'.applied > 0
    BY <1>1, <1>3
  <2> QED BY <1>0, <1>3, <2>1, LiveStates DEF NodeOK
<1>6. SnapshotOrder'
  <2>1. snapshot.sequence <= node.applied
    BY <1>0, LiveStates, Zenon DEF RecoveryInv, SnapshotOrder
  <2>2. snapshot.sequence <= node'.applied
    BY <1>1, <1>3, <2>1, Numbers
  <2> QED BY <1>0, <2>2, Zenon DEF RecoveryInv, SnapshotOrder
<1>7. AckedOK'
  <2>1. Sure => \A m \in acked : m <= node.applied
    BY <1>0, LiveStates, Zenon DEF RecoveryInv, AckedOK
  <2>2. \A m \in acked : m <= node.applied => m <= node'.applied
    BY <1>1, <1>3, Numbers
  <2> QED BY <1>0, <2>1, <2>2, Zenon DEF RecoveryInv, AckedOK
<1>8. LogOK'
  <2>1. (Prudent /\ pc' = "append") => ReplaySucceeds(Written(log, Wrap(RecordAt(node'.applied))))
    BY <1>0, <1>2, <1>3, Zenon DEF Appends
  <2>2. pc' # "append_sync"
    BY <1>0
  <2> QED BY <1>0, <2>1, <2>2, Zenon DEF RecoveryInv, LogOK
<1> QED BY <1>4, <1>5, <1>6, <1>7, <1>8, Zenon DEF RecoveryInv

\* append writes its record: a prudent owner's log can still be replayed.
LEMMA AppendWritesStep ==
  ASSUME RecoveryInv, AppendWrites
  PROVE  RecoveryInv'
<1> DEFINE k == node.applied
<1>0. /\ pc = "append" /\ log' = Written(log, Wrap(RecordAt(k))) /\ pc' = "append_sync"
      /\ UNCHANGED <<committed, node, logDisk, logEntry, temporary, snapshot, snapshotDisk,
                     acked, checkpoint>>
  BY Zenon DEF AppendWrites, Pending, history
<1>1. committed \in 0..Len(Mutations) /\ k \in Nat /\ k \in 1..committed
      /\ Len(log.entries) \in Nat
  <2>1. k > 0
    BY <1>0, Zenon DEF RecoveryInv, NodeOK
  <2> QED BY <1>0, <2>1, Numbers
<1>2. FileOK(log, committed)
  BY Zenon DEF RecoveryInv, FilesOK
<1>3. /\ FileOK(log', committed) /\ Len(log'.entries) = Len(log.entries) + 1
      /\ log'.entries # <<>> /\ log'.entries[Len(log'.entries)] = Wrap(RecordAt(k))
      /\ log'.exists = TRUE
  <2>1. FileOK(log', committed) /\ log'.exists = TRUE /\ Longer(log, log', k)
    BY <1>0, <1>1, <1>2, WrittenFacts, Zenon
  <2> QED BY <2>1, Zenon DEF Longer
<1>4. FilesOK'
  BY <1>0, <1>3, Zenon DEF RecoveryInv, FilesOK
<1>5. NodeOK'
  <2>1. ReplicaOK(node, committed) /\ node.applied > 0
    BY <1>0, Zenon DEF RecoveryInv, NodeOK
  <2> QED BY <1>0, <2>1, LiveStates DEF NodeOK
<1>6. SnapshotOrder'
  BY <1>0, LiveStates, Zenon DEF RecoveryInv, SnapshotOrder
<1>g. Prudent => ReplaySucceeds(log')
  BY <1>0, Zenon DEF RecoveryInv, LogOK
<1>7. AckedOK'
  <2>1. \A n \in acked : n <= Len(log.entries) => n <= Len(log'.entries)
    BY <1>1, <1>3, Numbers
  <2>2. Sure => \A n \in acked : \/ n <= snapshotDisk.sequence
                                 \/ Holds(log', n) /\ Holds(logDisk, n)
    <3>1. Sure => \A n \in acked : \/ n <= snapshotDisk.sequence
                                   \/ Holds(log, n) /\ Holds(logDisk, n)
      BY Zenon DEF RecoveryInv, AckedOK
    <3> QED BY <3>1, <2>1, <1>g, Zenon DEF Holds, Sure
  <2> QED BY <1>0, <2>2, LiveStates, Zenon DEF RecoveryInv, AckedOK
<1>8. LogOK'
  <2>1. pc' # "append"
    BY <1>0
  <2> QED BY <1>0, <1>3, <1>g, <2>1, Zenon DEF RecoveryInv, LogOK
<1> QED BY <1>4, <1>5, <1>6, <1>7, <1>8, Zenon DEF RecoveryInv

\* append fsyncs: the record it acknowledges is the last entry of the log, and
\* when the log can be replayed it has all records up to that one.
LEMMA AppendSyncsStep ==
  ASSUME RecoveryInv, AppendSyncs
  PROVE  RecoveryInv'
<1> DEFINE k == node.applied
<1>0. /\ pc = "append_sync" /\ logDisk' = log /\ acked' = acked \cup {k} /\ pc' = "idle"
      /\ UNCHANGED <<committed, node, log, logEntry, temporary, snapshot, snapshotDisk,
                     checkpoint>>
  BY Zenon DEF AppendSyncs
<1>1. ReplicaOK(node, committed) /\ k > 0 /\ committed \in 0..Len(Mutations)
      /\ k \in Nat /\ k \in 1..Len(Mutations) /\ Len(log.entries) \in Nat
  <2>1. ReplicaOK(node, committed) /\ k > 0
    BY <1>0, Zenon DEF RecoveryInv, NodeOK
  <2> QED BY <1>0, <2>1, Numbers, Length
<1>2. ReplaySucceeds(log) => Len(log.entries) = k
  <2> SUFFICES ASSUME ReplaySucceeds(log) PROVE Len(log.entries) = k
    OBVIOUS
  <2> DEFINE L == Len(log.entries)
  <2>1. log.entries[L] = Wrap(RecordAt(k)) /\ log.entries # <<>>
    BY <1>0, Zenon DEF RecoveryInv, LogOK
  <2>2. FileOK(log, committed)
    BY Zenon DEF RecoveryInv, FilesOK
  <2>3. L \in DOMAIN log.entries
    <3>1. \A S, s : s \in Seq(S) /\ s # <<>> => Len(s) \in DOMAIN s
      OBVIOUS
    <3> QED BY <2>1, <2>2, <3>1, Zenon DEF FileOK
  <2>4. log.entries[L].version = L
    BY <2>3, Zenon DEF ReplaySucceeds, EntryValid
  <2>5. Wrap(RecordAt(k)).version = k
    BY <1>1, WrapUnwrap, Zenon
  <2> QED BY <2>1, <2>4, <2>5, Zenon
<1>3. FilesOK'
  BY <1>0, Zenon DEF RecoveryInv, FilesOK
<1>4. NodeOK'
  BY <1>0, <1>1, LiveStates DEF NodeOK
<1>5. SnapshotOrder'
  BY <1>0, LiveStates, Zenon DEF RecoveryInv, SnapshotOrder
<1>6. snapshot.sequence <= k /\ \A x \in Nat : x <= x
  BY <1>0, LiveStates DEF RecoveryInv, SnapshotOrder
<1>7. AckedOK'
  <2>1. ASSUME NEW n \in acked'
        PROVE  n \in acked \/ (n = k /\ n <= k /\ (Sure => Holds(log, n)))
    <3>1. Sure => ReplaySucceeds(log)
      BY Zenon DEF RecoveryInv, LogOK, Sure
    <3>2. Sure => Holds(log, k)
      BY <1>1, <1>2, <1>6, <3>1, Zenon DEF Holds
    <3> QED BY <1>0, <1>1, <1>6, <2>1, <3>2, Zenon
  <2>2. \A n \in acked' : n \in Nat \ {0}
    <3>1. k \in Nat \ {0}
      BY <1>1
    <3> QED BY <2>1, <3>1, Zenon DEF RecoveryInv, AckedOK
  <2>3. Sure => \A n \in acked' : n <= snapshotDisk.sequence \/ Holds(log, n)
    BY <2>1, Zenon DEF RecoveryInv, AckedOK
  <2>4. Sure => \A n \in acked' : n <= k
    BY <1>0, <2>1, LiveStates, Zenon DEF RecoveryInv, AckedOK
  <2> QED BY <1>0, <2>2, <2>3, <2>4, Zenon DEF AckedOK
<1>8. LogOK'
  <2>1. pc' # "append_sync" /\ pc' # "append"
    BY <1>0
  <2> QED BY <1>0, <2>1, Zenon DEF RecoveryInv, LogOK
<1> QED BY <1>3, <1>4, <1>5, <1>7, <1>8, Zenon DEF RecoveryInv

\* The empty log.
LEMMA EmptyLog ==
  ASSUME NEW c, NEW file, NEW x, file = [exists |-> x, entries |-> <<>>, torn |-> FALSE]
  PROVE  FileOK(file, c) /\ ReplaySucceeds(file) /\ Len(file.entries) = 0 /\ file.exists = x
<1>1. file.entries = <<>> /\ file.exists = x /\ file.torn = FALSE
  OBVIOUS
<1>2. /\ \A S : <<>> \in Seq(S)
      /\ Len(<<>>) = 0 /\ DOMAIN <<>> = {}
  OBVIOUS
<1>3. FileOK(file, c)
  BY <1>1, <1>2, Zenon DEF FileOK
<1>4. 0 <= MaxLogRecords
  BY Limit
<1> QED BY <1>1, <1>2, <1>3, <1>4, Zenon DEF ReplaySucceeds, WithinLimits

\* reset empties the log when a snapshot, which is on disk, has what the
\* replica has applied.
LEMMA ResetTruncatesStep ==
  ASSUME RecoveryInv, ResetTruncates
  PROVE  RecoveryInv'
<1> DEFINE k == node.applied
<1>0. /\ pc = "idle" /\ checkpoint = k
      /\ log' = [exists |-> TRUE, entries |-> <<>>, torn |-> FALSE] /\ pc' = "reset_sync"
      /\ UNCHANGED <<committed, node, logDisk, logEntry, temporary, snapshot, snapshotDisk,
                     acked, checkpoint>>
  BY Zenon DEF ResetTruncates, history
<1>1. FileOK(log', committed) /\ ReplaySucceeds(log') /\ log'.exists = TRUE
  BY <1>0, EmptyLog
<1>2. ReplicaOK(node, committed)
  BY <1>0, Zenon DEF RecoveryInv, NodeOK
<1>3. /\ k \in Nat /\ snapshot.sequence \in Nat /\ snapshotDisk.sequence \in Nat
      /\ k <= snapshotDisk.sequence /\ snapshot.sequence <= k
  BY <1>0, LiveStates, Numbers DEF RecoveryInv, SnapshotOrder
<1>4. Sure => \A n \in acked : n <= snapshotDisk.sequence
  <2>1. Sure => \A n \in acked : n <= k
    BY <1>0, LiveStates, Zenon DEF RecoveryInv, AckedOK
  <2>2. \A n \in acked : n <= k => n <= snapshotDisk.sequence
    BY <1>3, Numbers
  <2> QED BY <2>1, <2>2, Zenon
<1>5. FilesOK'
  BY <1>0, <1>1, Zenon DEF RecoveryInv, FilesOK
<1>6. NodeOK'
  BY <1>0, <1>2, LiveStates DEF NodeOK
<1>7. SnapshotOrder'
  BY <1>0, LiveStates, Zenon DEF RecoveryInv, SnapshotOrder
<1>8. AckedOK'
  BY <1>0, <1>4, LiveStates, Zenon DEF RecoveryInv, AckedOK
<1>9. LogOK'
  <2>1. pc' # "append_sync" /\ pc' # "append"
    BY <1>0
  <2> QED BY <1>0, <1>1, <2>1, Zenon DEF RecoveryInv, LogOK
<1> QED BY <1>5, <1>6, <1>7, <1>8, <1>9, Zenon DEF RecoveryInv

\* And then its bytes.
LEMMA ResetSyncsStep ==
  ASSUME RecoveryInv, ResetSyncs
  PROVE  RecoveryInv'
<1> DEFINE k == node.applied
<1>0. /\ pc = "reset_sync" /\ logDisk' = log /\ pc' = "idle"
      /\ UNCHANGED <<committed, node, log, logEntry, temporary, snapshot, snapshotDisk,
                     acked, checkpoint>>
  BY Zenon DEF ResetSyncs, history
<1>1. ReplicaOK(node, committed)
  BY <1>0, Zenon DEF RecoveryInv, NodeOK
<1>2. FilesOK'
  BY <1>0, Zenon DEF RecoveryInv, FilesOK
<1>3. NodeOK'
  BY <1>0, <1>1, LiveStates DEF NodeOK
<1>4. SnapshotOrder'
  BY <1>0, LiveStates, Zenon DEF RecoveryInv, SnapshotOrder
<1>5. AckedOK'
  BY <1>0, LiveStates, Zenon DEF RecoveryInv, AckedOK
<1>6. LogOK'
  <2>1. pc' # "append_sync" /\ pc' # "append"
    BY <1>0
  <2> QED BY <1>0, <2>1, Zenon DEF RecoveryInv, LogOK
<1> QED BY <1>2, <1>3, <1>4, <1>5, <1>6, Zenon DEF RecoveryInv

\* Steps of write_replica_snapshot that touch neither log, snapshot nor
\* replica.
LEMMA TemporarySteps ==
  ASSUME RecoveryInv,
         /\ pc \in {"idle", "snapshot_sync", "snapshot_rename", "directory_sync"}
         /\ pc' \in {"idle", "snapshot_sync", "snapshot_rename"}
         /\ UNCHANGED <<committed, node, log, logDisk, logEntry, snapshot, snapshotDisk, acked,
                        checkpoint>>,
         pc' # "idle" => temporary' = [sequence |-> node.applied, documents |-> node.documents,
                                       synced |-> (pc' = "snapshot_rename")]
  PROVE  RecoveryInv'
<1>1. Live(pc) /\ Live(pc') /\ pc # "down" /\ pc' # "append_sync" /\ pc' # "append"
  BY LiveStates
<1>2. ReplicaOK(node, committed)
  BY <1>1, Zenon DEF RecoveryInv, NodeOK
<1>3. FilesOK'
  BY Zenon DEF RecoveryInv, FilesOK
<1>4. NodeOK'
  <2>1. pc' \in States \ {"refused"} /\ pc' \notin {"append", "append_sync", "reset_sync", "replay"}
    BY LiveStates
  <2>2. pc' \in {"snapshot_sync", "snapshot_rename"} => pc' # "idle"
    OBVIOUS
  <2> QED BY <1>2, <2>1, <2>2 DEF NodeOK
<1>5. SnapshotOrder'
  BY <1>1, Zenon DEF RecoveryInv, SnapshotOrder
<1>6. AckedOK'
  BY <1>1, Zenon DEF RecoveryInv, AckedOK
<1>7. LogOK'
  BY <1>1, Zenon DEF RecoveryInv, LogOK
<1> QED BY <1>3, <1>4, <1>5, <1>6, <1>7, Zenon DEF RecoveryInv

\* The temporary file holds the replica as it is, first without fsync.
LEMMA SnapshotTemporarySteps ==
  ASSUME RecoveryInv, SnapshotStarts \/ SnapshotSyncs \/ SnapshotFails
  PROVE  RecoveryInv'
<1>1. CASE SnapshotStarts
  <2>1. /\ pc = "idle" /\ pc' = "snapshot_sync"
        /\ temporary' = [sequence |-> node.applied, documents |-> node.documents,
                         synced |-> FALSE]
        /\ UNCHANGED <<committed, node, log, logDisk, logEntry, snapshot, snapshotDisk, acked,
                       checkpoint>>
    BY <1>1, Zenon DEF SnapshotStarts, history
  <2>2. (pc' = "snapshot_rename") = FALSE
    BY <2>1
  <2> QED BY <2>1, <2>2, TemporarySteps
<1>2. CASE SnapshotSyncs
  <2>1. /\ pc = "snapshot_sync" /\ pc' = "snapshot_rename"
        /\ temporary' = [temporary EXCEPT !.synced = TRUE]
        /\ UNCHANGED <<committed, node, log, logDisk, logEntry, snapshot, snapshotDisk, acked,
                       checkpoint>>
    BY <1>2, Zenon DEF SnapshotSyncs, history
  <2>2. temporary = [sequence |-> node.applied, documents |-> node.documents,
                     synced |-> (pc = "snapshot_rename")]
    BY <2>1, Zenon DEF RecoveryInv, NodeOK
  <2>3. temporary' = [sequence |-> node.applied, documents |-> node.documents, synced |-> TRUE]
    <3> DEFINE Type == [sequence : {node.applied}, documents : {node.documents},
                        synced : {(pc = "snapshot_rename"), TRUE}]
    <3>1. temporary \in Type
      BY <2>2
    <3>2. temporary' \in Type /\ temporary'.synced = TRUE
      BY <2>1, <3>1
    <3>3. /\ temporary' = [sequence |-> temporary'.sequence, documents |-> temporary'.documents,
                           synced |-> temporary'.synced]
          /\ temporary'.sequence = node.applied /\ temporary'.documents = node.documents
      BY <3>2
    <3> QED BY <3>2, <3>3, Zenon
  <2>4. (pc' = "snapshot_rename") = TRUE
    BY <2>1
  <2> QED BY <2>1, <2>3, <2>4, TemporarySteps
<1>3. CASE SnapshotFails
  <2>1. /\ pc \in {"snapshot_sync", "snapshot_rename", "directory_sync"} /\ pc' = "idle"
        /\ UNCHANGED <<committed, node, log, logDisk, logEntry, snapshot, snapshotDisk, acked,
                       checkpoint>>
    BY <1>3, Zenon DEF SnapshotFails, history
  <2> QED BY <2>1, TemporarySteps
<1> QED BY <1>1, <1>2, <1>3

\* The rename shows a snapshot of what the replica has applied.
LEMMA SnapshotRenamesStep ==
  ASSUME RecoveryInv, SnapshotRenames
  PROVE  RecoveryInv'
<1> DEFINE k == node.applied
<1>0. /\ pc = "snapshot_rename" /\ snapshot' = temporary /\ pc' = "directory_sync"
      /\ UNCHANGED <<committed, node, log, logDisk, logEntry, snapshotDisk, acked,
                     checkpoint>>
  BY Zenon DEF SnapshotRenames, history
<1>1. ReplicaOK(node, committed) /\ committed \in 0..Len(Mutations)
  BY <1>0, Numbers, Zenon DEF RecoveryInv, NodeOK
<1>2. /\ snapshot'.sequence = k /\ snapshot'.documents = node.documents
      /\ snapshot'.synced = TRUE
  <2>1. temporary = [sequence |-> k, documents |-> node.documents,
                     synced |-> (pc = "snapshot_rename")]
    BY <1>0, Zenon DEF RecoveryInv, NodeOK
  <2>2. (pc = "snapshot_rename") = TRUE
    BY <1>0
  <2>3. snapshot' = [sequence |-> k, documents |-> node.documents, synced |-> TRUE]
    BY <1>0, <2>1, <2>2, Zenon
  <2> QED BY <2>3
<1>3. FilesOK'
  <2>1. SnapshotOK(snapshot', committed)
    BY <1>1, <1>2, ReplicaFacts, Zenon DEF SnapshotOK, ReplicaOK
  <2> QED BY <1>0, <2>1, Zenon DEF RecoveryInv, FilesOK
<1>4. NodeOK'
  BY <1>0, <1>1, LiveStates DEF NodeOK
<1>5. snapshotDisk.sequence <= k /\ k <= k
  BY <1>0, LiveStates, Numbers DEF RecoveryInv, SnapshotOrder
<1>6. SnapshotOrder'
  BY <1>0, <1>2, <1>5, Zenon DEF RecoveryInv, SnapshotOrder
<1>7. AckedOK'
  BY <1>0, LiveStates, Zenon DEF RecoveryInv, AckedOK
<1>8. LogOK'
  <2>1. pc' # "append_sync" /\ pc' # "append"
    BY <1>0
  <2> QED BY <1>0, <2>1, Zenon DEF RecoveryInv, LogOK
<1> QED BY <1>3, <1>4, <1>6, <1>7, <1>8, Zenon DEF RecoveryInv

\* The directory is fsynced: the snapshot on disk is the one there is.
LEMMA DirectorySyncsStep ==
  ASSUME RecoveryInv, DirectorySyncs
  PROVE  RecoveryInv'
<1> DEFINE k == node.applied
<1>0. /\ pc = "directory_sync" /\ snapshotDisk' = snapshot /\ checkpoint' = snapshot.sequence
      /\ pc' = "idle"
      /\ UNCHANGED <<committed, node, log, logDisk, temporary, snapshot, acked>>
      /\ logEntry' = log.exists
  BY Zenon DEF DirectorySyncs
<1>1. ReplicaOK(node, committed)
  BY <1>0, Zenon DEF RecoveryInv, NodeOK
<1>2. \A n \in acked : n <= snapshotDisk.sequence => n <= snapshot.sequence
  <2>1. snapshotDisk.sequence <= snapshot.sequence
    BY Zenon DEF RecoveryInv, SnapshotOrder
  <2> QED BY <2>1, Numbers
<1>3. FilesOK'
  BY <1>0, Zenon DEF RecoveryInv, FilesOK
<1>4. NodeOK'
  BY <1>0, <1>1, LiveStates DEF NodeOK
<1>5. SnapshotOrder'
  <2>1. snapshot.sequence \in Nat /\ snapshot.sequence <= snapshot.sequence
    BY Numbers
  <2> QED BY <1>0, <2>1, LiveStates, Zenon DEF RecoveryInv, SnapshotOrder
<1>6. AckedOK'
  BY <1>0, <1>2, LiveStates, Zenon DEF RecoveryInv, AckedOK
<1>7. LogOK'
  <2>1. pc' # "append_sync" /\ pc' # "append"
    BY <1>0
  <2> QED BY <1>0, <2>1, Zenon DEF RecoveryInv, LogOK
<1> QED BY <1>3, <1>4, <1>5, <1>6, <1>7, Zenon DEF RecoveryInv

\* What a process that dies leaves of the log: a record more, a part of one, or
\* what there was.  A prudent owner can replay it in each case.
LEMMA CrashedLog ==
  ASSUME RecoveryInv, NEW l \in LogsAfterCrash
  PROVE  /\ FileOK(l, committed)
         /\ log.exists = TRUE => l.exists = TRUE
         /\ Len(log.entries) <= Len(l.entries)
         /\ Prudent => ReplaySucceeds(l)
<1> DEFINE k == node.applied
<1>1. FileOK(log, committed) /\ committed \in 0..Len(Mutations) /\ Len(log.entries) \in Nat
      /\ Len(log.entries) <= Len(log.entries)
  BY Numbers DEF RecoveryInv, FilesOK
<1>2. CASE l.entries = log.entries /\ FileOK(l, committed) /\ (log.exists = TRUE => l.exists = TRUE)
  BY <1>1, <1>2, SameEntries, Zenon DEF RecoveryInv, LogOK
<1>3. CASE l = log
  BY <1>1, <1>2, <1>3, Zenon
<1>4. CASE pc = "append" /\ l = PartlyWritten(log)
  BY <1>1, <1>2, <1>4, FileChanges, Zenon
<1>5. CASE pc = "append" /\ l = Written(log, Wrap(RecordAt(k)))
  <2>1. k \in 1..committed
    <3>1. k > 0
      BY <1>5, Zenon DEF RecoveryInv, NodeOK
    <3> QED BY <1>5, <3>1, Numbers
  <2>2. FileOK(l, committed) /\ l.exists = TRUE /\ Longer(log, l, k)
    BY <1>1, <1>5, <2>1, WrittenFacts, Zenon
  <2>3. Len(l.entries) = Len(log.entries) + 1
    BY <2>2, Zenon DEF Longer
  <2>4. Len(log.entries) <= Len(l.entries)
    BY <1>1, <2>3
  <2>5. Prudent => ReplaySucceeds(l)
    BY <1>5, Zenon DEF RecoveryInv, LogOK
  <2> QED BY <2>2, <2>4, <2>5, Zenon
<1> QED BY <1>3, <1>4, <1>5, Zenon DEF LogsAfterCrash, Pending

\* So nothing acknowledged is lost with it, from the log or from its bytes on
\* disk.
LEMMA CrashedAcked ==
  ASSUME RecoveryInv, NEW l \in LogsAfterCrash, Sure, NEW n \in acked
  PROVE  n <= snapshotDisk.sequence \/ (Holds(l, n) /\ Holds(logDisk, n))
<1>1. n <= snapshotDisk.sequence \/ (Holds(log, n) /\ Holds(logDisk, n))
  BY Zenon DEF RecoveryInv, AckedOK
<1>2. FileOK(l, committed) /\ committed \in 0..Len(Mutations)
  BY CrashedLog, Numbers, Zenon
<1>3. n <= Len(log.entries) => n <= Len(l.entries)
  <2>1. Len(l.entries) \in Nat
    BY <1>2, FileFacts, Zenon
  <2>2. Len(log.entries) <= Len(l.entries)
    BY CrashedLog, Zenon
  <2> QED BY <2>1, <2>2, Numbers
<1> QED BY <1>1, <1>3, CrashedLog, Zenon DEF Holds, Sure

\* The process dies, by itself or with a failed append or reset.
LEMMA CrashSteps ==
  ASSUME RecoveryInv, LogFails \/ Crash
  PROVE  RecoveryInv'
<1>0. /\ pc' = "down" /\ log' \in LogsAfterCrash
      /\ UNCHANGED <<committed, logDisk, logEntry, snapshot, snapshotDisk, acked,
                     checkpoint>>
  BY Zenon DEF LogFails, Crash, Dies, history
<1>1. FilesOK'
  BY <1>0, CrashedLog, Zenon DEF RecoveryInv, FilesOK
<1>2. NodeOK'
  BY <1>0, LiveStates DEF NodeOK
<1>3. SnapshotOrder'
  BY <1>0, LiveStates, Zenon DEF RecoveryInv, SnapshotOrder
<1>4. AckedOK'
  BY <1>0, CrashedAcked, LiveStates, Zenon DEF RecoveryInv, AckedOK
<1>5. LogOK'
  <2>1. pc' # "append_sync" /\ pc' # "append"
    BY <1>0
  <2> QED BY <1>0, <2>1, CrashedLog, Zenon DEF RecoveryInv, LogOK
<1> QED BY <1>1, <1>2, <1>3, <1>4, <1>5, Zenon DEF RecoveryInv

\* What a power failure leaves of the log.
LEMMA LostLog ==
  ASSUME RecoveryInv, NEW seen \in LogsAfterCrash, NEW l \in LogsAfterPowerLoss(seen)
  PROVE  /\ FileOK(l, committed)
         /\ Prudent => ReplaySucceeds(l)
         /\ LogCreated => l.exists = TRUE
         /\ Sure => \A n \in acked : n <= snapshotDisk.sequence \/ Holds(l, n)
<1>1. FileOK(log, committed) /\ FileOK(logDisk, committed) /\ committed \in 0..Len(Mutations)
  BY Numbers, Zenon DEF RecoveryInv, FilesOK
<1>2. CASE l = NoFile /\ ~LogCreated
  <2>1. FileOK(l, committed) /\ ReplaySucceeds(l)
    BY <1>2, EmptyLog DEF NoFile
  <2> QED BY <1>2, <2>1, Zenon DEF Sure
<1>3. CASE l \in {[logDisk EXCEPT !.exists = TRUE], PartlyWritten(logDisk)}
  <2>1. FileOK(l, committed) /\ l.entries = logDisk.entries /\ l.exists = TRUE
    <3>1. CASE l = PartlyWritten(logDisk)
      BY <1>1, <3>1, FileChanges, Zenon
    <3>2. CASE l = [logDisk EXCEPT !.exists = TRUE]
      BY <1>1, <3>2, FileChanges, Zenon
    <3> QED BY <1>3, <3>1, <3>2, Zenon
  <2>2. Prudent => ReplaySucceeds(l)
    BY <2>1, SameEntries, Zenon DEF RecoveryInv, LogOK
  <2>3. Sure => \A n \in acked : n <= snapshotDisk.sequence \/ Holds(l, n)
    BY <2>1, SameEntries, Zenon DEF RecoveryInv, AckedOK
  <2> QED BY <2>1, <2>2, <2>3, Zenon
<1>4. CASE l = seen
  BY <1>4, CrashedLog, CrashedAcked, Zenon DEF RecoveryInv, LogOK
<1>5. LogCreated => seen.exists /\ logEntry
  BY CrashedLog, Zenon DEF RecoveryInv, LogOK
<1> QED BY <1>2, <1>3, <1>4, <1>5, Zenon DEF LogsAfterPowerLoss

\* The power goes.  The log and the snapshot that are left are those on disk,
\* so that what the snapshot lacks is in the log and the other way round.
LEMMA PowerLossStep ==
  ASSUME RecoveryInv, PowerLoss
  PROVE  RecoveryInv'
<1>0. /\ pc' = "down" /\ \E seen \in LogsAfterCrash : log' \in LogsAfterPowerLoss(seen)
      /\ logDisk' = log' /\ logEntry' = log'.exists
      /\ snapshot' \in SnapshotsAfterPowerLoss /\ snapshotDisk' = snapshot'
      /\ UNCHANGED <<committed, acked, checkpoint>>
  BY Zenon DEF PowerLoss, Dies
<1>1. PICK seen \in LogsAfterCrash : log' \in LogsAfterPowerLoss(seen)
  BY <1>0, Zenon
<1>2. /\ FileOK(log', committed)
      /\ Prudent => ReplaySucceeds(log')
      /\ LogCreated => log'.exists = TRUE
      /\ Sure => \A n \in acked : n <= snapshotDisk.sequence \/ Holds(log', n)
  BY <1>0, <1>1, LostLog, Zenon
<1>3. snapshot' \in {snapshotDisk, snapshot}
  BY <1>0, Zenon DEF SnapshotsAfterPowerLoss, RecoveryInv, FilesOK, SnapshotOK
<1>4. /\ SnapshotOK(snapshot', committed) /\ snapshot'.sequence \in Nat
      /\ snapshotDisk.sequence <= snapshot'.sequence /\ checkpoint <= snapshot'.sequence
      /\ snapshot'.sequence <= snapshot'.sequence
  <2>1. SnapshotOK(snapshot', committed)
    BY <1>3, Zenon DEF RecoveryInv, FilesOK
  <2>2. checkpoint <= snapshotDisk.sequence /\ snapshotDisk.sequence <= snapshot.sequence
    BY Zenon DEF RecoveryInv, SnapshotOrder
  <2> QED BY <1>3, <2>1, <2>2, Numbers
<1>5. \A n \in acked : n <= snapshotDisk.sequence => n <= snapshot'.sequence
  BY <1>4, Numbers
<1>6. FilesOK'
  BY <1>0, <1>2, <1>4, Zenon DEF RecoveryInv, FilesOK
<1>7. NodeOK'
  BY <1>0, LiveStates DEF NodeOK
<1>8. SnapshotOrder'
  BY <1>0, <1>4, LiveStates, Zenon DEF RecoveryInv, SnapshotOrder
<1>9. AckedOK'
  BY <1>0, <1>2, <1>5, LiveStates, Zenon DEF RecoveryInv, AckedOK
<1>10. LogOK'
  <2>1. pc' # "append_sync" /\ pc' # "append"
    BY <1>0
  <2> QED BY <1>0, <1>2, <2>1, Zenon DEF LogOK
<1> QED BY <1>6, <1>7, <1>8, <1>9, <1>10, Zenon DEF RecoveryInv

\* replay has read the log: its entries stay, and so do those on disk unless
\* the torn tail was cut off.
LEMMA ReadLog ==
  ASSUME RecoveryInv, LogRead
  PROVE  /\ FileOK(log', committed) /\ FileOK(logDisk', committed)
         /\ log'.entries = log.entries /\ log'.exists = log.exists
         /\ logDisk'.entries = log.entries \/ logDisk'.entries = logDisk.entries
<1>1. FileOK(log, committed) /\ FileOK(logDisk, committed) /\ committed \in 0..Len(Mutations)
  BY Numbers, Zenon DEF RecoveryInv, FilesOK
<1>2. log' = Repaired(log) /\ (logDisk' = log' \/ logDisk' = logDisk)
  BY Zenon DEF LogRead
<1> QED BY <1>1, <1>2, FileChanges, Zenon

\* So what the invariant says of acknowledged records and of a log that can be
\* replayed is still so.
LEMMA ReadAcked ==
  ASSUME RecoveryInv, LogRead,
         UNCHANGED <<snapshot, snapshotDisk, acked>>
  PROVE  /\ ReplaySucceeds(log') <=> ReplaySucceeds(log)
         /\ Len(log'.entries) = Len(log.entries)
         /\ Sure => \A n \in acked : \/ n <= snapshotDisk.sequence
                                     \/ Holds(log', n) /\ Holds(logDisk', n)
         /\ Prudent => ReplaySucceeds(log') /\ ReplaySucceeds(logDisk')
         /\ LogCreated => log'.exists = TRUE
<1>1. log'.entries = log.entries /\ log'.exists = log.exists
      /\ (logDisk'.entries = log.entries \/ logDisk'.entries = logDisk.entries)
  BY ReadLog, Zenon
<1>2. /\ ReplaySucceeds(log') <=> ReplaySucceeds(log)
      /\ \A n : Holds(log', n) <=> Holds(log, n)
  BY <1>1, SameEntries, Zenon
<1>3. CASE logDisk'.entries = log.entries
  <2>1. /\ ReplaySucceeds(logDisk') <=> ReplaySucceeds(log)
        /\ \A n : Holds(logDisk', n) <=> Holds(log, n)
    BY <1>3, SameEntries, Zenon
  <2> QED BY <1>1, <1>2, <2>1, Zenon DEF RecoveryInv, AckedOK, LogOK
<1>4. CASE logDisk'.entries = logDisk.entries
  <2>1. /\ ReplaySucceeds(logDisk') <=> ReplaySucceeds(logDisk)
        /\ \A n : Holds(logDisk', n) <=> Holds(logDisk, n)
    BY <1>4, SameEntries, Zenon
  <2> QED BY <1>1, <1>2, <2>1, Zenon DEF RecoveryInv, AckedOK, LogOK
<1> QED BY <1>1, <1>3, <1>4, Zenon

\* A replica without operations: the empty one, and one that was restored.
LEMMA FreshReplica ==
  ASSUME NEW c \in 0..Len(Mutations), NEW R, NEW n \in 0..c,
         R = [shard |-> Shard, epoch |-> Epoch, applied |-> n, health |-> "healthy",
              documents |-> Image(n), operations |-> {}]
  PROVE  ReplicaOK(R, c) /\ R.applied = n
<1>1. R.applied = n /\ R.operations = {}
  OBVIOUS
<1> QED BY <1>1, Zenon DEF ReplicaOK

\* recover_replica begins with an empty replica.
LEMMA RecoverStep ==
  ASSUME RecoveryInv, Recover
  PROVE  RecoveryInv'
<1>0. /\ pc = "down" /\ LogIsNewer /\ node' = EmptyReplica(Shard, Epoch) /\ LogRead
      /\ pc' = "replay"
      /\ UNCHANGED <<committed, logEntry, snapshot, snapshotDisk, acked, checkpoint>>
  BY Zenon DEF Recover, history
<1>1. ReplicaOK(node', committed) /\ node'.applied = 0
  <2>1. committed \in 0..Len(Mutations) /\ 0 \in 0..committed
    BY Numbers
  <2>2. node' = [shard |-> Shard, epoch |-> Epoch, applied |-> 0, health |-> "healthy",
                 documents |-> Image(0), operations |-> {}]
    BY <1>0, ImageFacts, Zenon DEF EmptyReplica
  <2> QED BY <2>1, <2>2, FreshReplica, Zenon
<1>2. /\ ReplaySucceeds(log') /\ Len(log'.entries) \in Nat
      /\ snapshot.sequence <= Len(log'.entries)
  <2>1. ReplaySucceeds(log) /\ Len(log.entries) >= snapshot.sequence
    BY <1>0, Zenon DEF LogIsNewer
  <2>2. snapshot.sequence <= Len(log.entries)
    BY <2>1, Numbers
  <2> QED BY <1>0, <2>1, <2>2, ReadAcked, Numbers, Zenon
<1>3. FilesOK'
  BY <1>0, ReadLog, Zenon DEF RecoveryInv, FilesOK
<1>4. NodeOK'
  <2>1. node'.applied <= Len(log'.entries)
    BY <1>1, <1>2
  <2> QED BY <1>0, <1>1, <1>2, <2>1, LiveStates DEF NodeOK
<1>5. ~Live(pc') /\ pc' # "append_sync" /\ pc' # "append"
  BY <1>0, LiveStates
<1>6. SnapshotOrder'
  BY <1>0, <1>5, Zenon DEF RecoveryInv, SnapshotOrder
<1>7. AckedOK'
  BY <1>0, <1>5, ReadAcked, Zenon DEF RecoveryInv, AckedOK
<1>8. LogOK'
  BY <1>0, <1>5, ReadAcked, Zenon DEF RecoveryInv, LogOK
<1> QED BY <1>3, <1>4, <1>6, <1>7, <1>8, Zenon DEF RecoveryInv

\* Its loop applies the next record of the primary's log, which apply accepts.
LEMMA ReplayRecordStep ==
  ASSUME RecoveryInv, ReplayRecord
  PROVE  RecoveryInv'
<1> DEFINE k == node.applied  record == Unwrap(log.entries[k + 1])
<1>0. /\ pc = "replay" /\ k < Len(log.entries) /\ node' = Apply(node, record)
      /\ pc' = IF Acknowledges(node, record) THEN "replay" ELSE "refused"
      /\ UNCHANGED <<committed, log, logDisk, logEntry, snapshot, snapshotDisk, acked, checkpoint>>
  BY Zenon DEF ReplayRecord, files, history
<1>1. /\ ReplicaOK(node, committed) /\ ReplaySucceeds(log) /\ FileOK(log, committed)
      /\ snapshot.sequence <= Len(log.entries) /\ committed \in 0..Len(Mutations)
  BY <1>0, Numbers, Zenon DEF RecoveryInv, NodeOK, FilesOK
<1>2. k \in Nat /\ k + 1 \in 1..Len(log.entries)
  BY <1>0, Numbers
<1>3. k + 1 \in 1..committed /\ record = RecordAt(k + 1)
  BY <1>1, <1>2, ReplayedEntry, Zenon
<1>4. k < committed
  BY <1>2, <1>3, Numbers
<1>5. /\ ApplyOutcome(node, record) = "applied" /\ node'.applied = k + 1
      /\ ReplicaOK(node', committed)
  BY <1>0, <1>1, <1>3, <1>4, ApplyNext, Zenon
<1>6. pc' = "replay"
  BY <1>0, <1>5, Zenon DEF Acknowledges
<1>7. FilesOK'
  BY <1>0, Zenon DEF RecoveryInv, FilesOK
<1>8. NodeOK'
  <2>1. node'.applied <= Len(log.entries)
    BY <1>2, <1>5
  <2>2. ReplaySucceeds(log') /\ node'.applied <= Len(log'.entries)
        /\ snapshot'.sequence <= Len(log'.entries) /\ ReplicaOK(node', committed')
    BY <1>0, <1>1, <1>5, <2>1, Zenon
  <2> QED BY <1>6, <2>2, LiveStates DEF NodeOK
<1>9. ~Live(pc') /\ pc' # "append_sync" /\ pc' # "append"
  BY <1>6, LiveStates
<1>10. SnapshotOrder' /\ AckedOK' /\ LogOK'
  BY <1>0, <1>9, Zenon DEF RecoveryInv, SnapshotOrder, AckedOK, LogOK
<1> QED BY <1>7, <1>8, <1>10, Zenon DEF RecoveryInv

\* The log has been replayed, and the replica serves what it holds.
LEMMA ReplayDoneStep ==
  ASSUME RecoveryInv, ReplayDone
  PROVE  RecoveryInv'
<1> DEFINE k == node.applied
<1>0. /\ pc = "replay" /\ k >= Len(log.entries) /\ pc' = "idle"
      /\ UNCHANGED <<committed, node, log, logDisk, logEntry, snapshot, snapshotDisk, acked,
                     checkpoint>>
  BY Zenon DEF ReplayDone, files, history
<1>1. /\ ReplicaOK(node, committed) /\ k <= Len(log.entries)
      /\ snapshot.sequence <= Len(log.entries)
  BY <1>0, Zenon DEF RecoveryInv, NodeOK
<1>2. Len(log.entries) = k /\ snapshot.sequence <= k
  BY <1>0, <1>1, Numbers
<1>3. FilesOK'
  BY <1>0, Zenon DEF RecoveryInv, FilesOK
<1>4. NodeOK'
  BY <1>0, <1>1, LiveStates DEF NodeOK
<1>5. SnapshotOrder'
  BY <1>0, <1>2, Zenon DEF RecoveryInv, SnapshotOrder
<1>6. AckedOK'
  <2>1. \A n \in acked : n <= snapshotDisk.sequence => n <= k
    <3>1. snapshotDisk.sequence <= snapshot.sequence
      BY Zenon DEF RecoveryInv, SnapshotOrder
    <3> QED BY <1>0, <1>2, <3>1, Numbers
  <2>2. \A n : Holds(log, n) => n <= k
    BY <1>2, Zenon DEF Holds
  <2> QED BY <1>0, <2>1, <2>2, Zenon DEF RecoveryInv, AckedOK
<1>7. LogOK'
  <2>1. pc' # "append_sync" /\ pc' # "append"
    BY <1>0
  <2> QED BY <1>0, <2>1, Zenon DEF RecoveryInv, LogOK
<1> QED BY <1>3, <1>4, <1>5, <1>6, <1>7, Zenon DEF RecoveryInv

\* A replica restored from the snapshot has what the log lacks: the log cannot
\* be replayed or ends before it.
LEMMA RestoreStep ==
  ASSUME RecoveryInv, Restore
  PROVE  RecoveryInv'
<1> DEFINE k == snapshot.sequence
<1>0. /\ pc \in {"down", "refused"} /\ (pc = "down" => ~LogIsNewer)
      /\ node' = Restored(snapshot) /\ LogRead /\ pc' = "idle"
      /\ UNCHANGED <<committed, logEntry, snapshot, snapshotDisk, acked, checkpoint>>
  BY Zenon DEF Restore, history
<1>1. ~LogIsNewer
  <2>1. pc # "refused"
    BY Zenon DEF RecoveryInv, NodeOK
  <2> QED BY <1>0, <2>1, Zenon
<1>2. ReplaySucceeds(log) => Len(log.entries) < k
  BY <1>1, Numbers DEF LogIsNewer
<1>3. ReplicaOK(node', committed) /\ node'.applied = k
  <2>1. committed \in 0..Len(Mutations) /\ k \in 0..committed /\ snapshot.documents = Image(k)
    BY Numbers, Zenon DEF RecoveryInv, FilesOK, SnapshotOK
  <2> DEFINE d == snapshot.documents
  <2>2. node' = [shard |-> Shard, epoch |-> Epoch, applied |-> k, health |-> "healthy",
                 documents |-> d, operations |-> {}]
    <3> DEFINE E == EmptyReplica(Shard, Epoch)
               N == [E EXCEPT !.applied = k, !.documents = d]
               Type == [shard : {Shard}, epoch : {Epoch}, applied : {0, k},
                        health : {"healthy"}, documents : {{}, d}, operations : {{}}]
    <3>0. node' = N
      BY <1>0, Zenon DEF Restored
    <3>1. E \in Type
      BY DEF EmptyReplica
    <3> HIDE DEF E, d
    <3>2. N \in Type /\ N.applied = k /\ N.documents = d
      BY <3>1
    <3> HIDE DEF N
    <3>3. /\ N = [shard |-> N.shard, epoch |-> N.epoch, applied |-> N.applied,
                  health |-> N.health, documents |-> N.documents, operations |-> N.operations]
          /\ N.shard = Shard /\ N.epoch = Epoch /\ N.health = "healthy" /\ N.operations = {}
      BY <3>2
    <3> QED BY <3>0, <3>2, <3>3, Zenon
  <2> QED BY <2>1, <2>2, FreshReplica, Zenon
<1>4. FilesOK'
  BY <1>0, ReadLog, Zenon DEF RecoveryInv, FilesOK
<1>5. NodeOK'
  BY <1>0, <1>3, LiveStates DEF NodeOK
<1>6. SnapshotOrder'
  <2>1. k <= k
    BY Numbers
  <2> QED BY <1>0, <1>3, <2>1, Zenon DEF RecoveryInv, SnapshotOrder
<1>7. AckedOK'
  <2>1. Sure => \A n \in acked : n <= snapshotDisk.sequence \/ Holds(log, n)
    BY Zenon DEF RecoveryInv, AckedOK
  <2>2. \A n \in acked : n <= snapshotDisk.sequence => n <= k
    <3>1. snapshotDisk.sequence <= snapshot.sequence
      BY Zenon DEF RecoveryInv, SnapshotOrder
    <3> QED BY <3>1, Numbers
  <2>3. \A n \in acked : Holds(log, n) => n <= k
    BY <1>2, Numbers DEF Holds
  <2>4. Sure => \A n \in acked : n <= node'.applied
    BY <1>3, <2>1, <2>2, <2>3, Zenon
  <2> QED BY <1>0, <2>4, ReadAcked, Zenon DEF RecoveryInv, AckedOK
<1>8. LogOK'
  <2>1. pc' # "append_sync" /\ pc' # "append"
    BY <1>0
  <2> QED BY <1>0, <2>1, ReadAcked, Zenon DEF RecoveryInv, LogOK
<1> QED BY <1>4, <1>5, <1>6, <1>7, <1>8, Zenon DEF RecoveryInv

-----------------------------------------------------------------------------
(* The theorems                                                            *)

\* Nothing has happened: everything is empty.
LEMMA InitInv == Init => RecoveryInv
<1> SUFFICES ASSUME Init PROVE RecoveryInv
  OBVIOUS
<1>0. /\ committed = 0 /\ node = EmptyReplica(Shard, Epoch) /\ pc = "idle"
      /\ log = [NoFile EXCEPT !.exists = LogCreated] /\ logDisk = log /\ logEntry = LogCreated
      /\ snapshot = NoSnapshot /\ snapshotDisk = NoSnapshot
      /\ acked = {} /\ checkpoint = 0
  BY Zenon DEF Init
<1>1. committed \in 0..Len(Mutations) /\ 0 \in 0..committed
  BY <1>0, Length
<1>2. FileOK(log, committed) /\ ReplaySucceeds(log) /\ log.exists = LogCreated
  <2>1. log = [exists |-> LogCreated, entries |-> <<>>, torn |-> FALSE]
    BY <1>0 DEF NoFile
  <2> QED BY <2>1, EmptyLog
<1>3. snapshot.sequence = 0 /\ snapshot.documents = {} /\ snapshot.synced = TRUE
  BY <1>0 DEF NoSnapshot
<1>4. SnapshotOK(snapshot, committed)
  BY <1>1, <1>3, ImageFacts, Zenon DEF SnapshotOK
<1>5. ReplicaOK(node, committed) /\ node.applied = 0
  <2>1. node = [shard |-> Shard, epoch |-> Epoch, applied |-> 0, health |-> "healthy",
                documents |-> Image(0), operations |-> {}]
    BY <1>0, ImageFacts, Zenon DEF EmptyReplica
  <2> QED BY <1>1, <2>1, FreshReplica, Zenon
<1>6. FilesOK
  BY <1>0, <1>1, <1>2, <1>4, Zenon DEF FilesOK
<1>7. NodeOK
  BY <1>0, <1>5, LiveStates DEF NodeOK
<1>8. SnapshotOrder
  BY <1>0, <1>3, <1>5 DEF SnapshotOrder
<1>9. AckedOK
  BY <1>0, Zenon DEF AckedOK
<1>10. LogOK
  <2>1. pc # "append_sync" /\ pc # "append"
    BY <1>0
  <2> QED BY <1>0, <1>2, <2>1, Zenon DEF LogOK
<1> QED BY <1>6, <1>7, <1>8, <1>9, <1>10, Zenon DEF RecoveryInv

\* RecoveryInv is inductive.
LEMMA NextInv == RecoveryInv /\ [Next]_vars => RecoveryInv'
<1> SUFFICES ASSUME RecoveryInv, [Next]_vars PROVE RecoveryInv'
  OBVIOUS
<1>1. CASE Commit
  BY <1>1, CommitStep
<1>2. CASE \E n \in DOMAIN Mutations : Deliver(n)
  BY <1>2, DeliverStep
<1>3. CASE Running
  BY <1>3, AppendWritesStep, AppendSyncsStep, ResetSyncsStep, SnapshotTemporarySteps,
     SnapshotRenamesStep, DirectorySyncsStep, ReplayRecordStep, ReplayDoneStep, Zenon
  DEF Running
<1>4. CASE ResetTruncates
  BY <1>4, ResetTruncatesStep
<1>5. CASE SnapshotStarts \/ SnapshotFails
  BY <1>5, SnapshotTemporarySteps
<1>6. CASE LogFails \/ Crash
  BY <1>6, CrashSteps
<1>7. CASE PowerLoss
  BY <1>7, PowerLossStep
<1>8. CASE Recover
  BY <1>8, RecoverStep
<1>9. CASE Restore
  BY <1>9, RestoreStep
<1>10. CASE UNCHANGED vars
  <2>1. UNCHANGED <<committed, node, pc, log, logDisk, logEntry, temporary, snapshot, snapshotDisk,
                    acked, checkpoint>>
    BY <1>10, Zenon DEF vars
  <2> QED BY <2>1, Zenon DEF RecoveryInv, FilesOK, NodeOK, SnapshotOrder, AckedOK, LogOK
<1> QED BY <1>1, <1>2, <1>3, <1>4, <1>5, <1>6, <1>7, <1>8, <1>9, <1>10, Zenon DEF Next

\* What the log, its fsynced bytes, the snapshot, the snapshot on disk and the
\* replica keep between them holds in every reachable state of the recovery
\* protocol (PersistentMutationLog, recover_replica, write_replica_snapshot,
\* OrderedReplica::restore).
THEOREM RecoveryInvariance == Spec => []RecoveryInv
<1>1. Init => RecoveryInv
  BY InitInv
<1>2. RecoveryInv /\ [Next]_vars => RecoveryInv'
  BY NextInv
<1> QED BY <1>1, <1>2, PTL DEF Spec

\* Whichever way the replica came up (recover_replica or restore, then apply),
\* its index is the image of the prefix of the primary's log that it says it
\* has applied, and apply never takes a record of that prefix again.
THEOREM Faithful == Spec => []ReplicaFaithful
<1>1. RecoveryInv => ReplicaFaithful
  <2> SUFFICES ASSUME RecoveryInv, pc # "down"
               PROVE  /\ node.applied \in 0..committed
                      /\ node.documents = Image(node.applied)
                      /\ \A n \in 1..node.applied :
                           ApplyOutcome(node, RecordAt(n)) \in {"duplicate", "stale_sequence"}
    BY Zenon DEF ReplicaFaithful
  <2>1. ReplicaOK(node, committed) /\ committed \in 0..Len(Mutations)
    BY Numbers, Zenon DEF RecoveryInv, NodeOK
  <2>2. node.applied \in 0..committed
    BY <2>1, Zenon DEF ReplicaOK
  <2> QED BY <2>1, <2>2, ReplicaFacts, ApplyOld, Zenon
<1> QED BY <1>1, RecoveryInvariance, PTL

\* A replica that serves accepts the record after the last that it has applied
\* (OrderedReplica::apply), also when it was restored and remembers no operation.
THEOREM CatchUpBegins == Spec => []NextAccepted
<1>1. RecoveryInv => NextAccepted
  <2> SUFFICES ASSUME RecoveryInv, pc = "idle", node.applied < committed
               PROVE  ApplyOutcome(node, RecordAt(node.applied + 1)) = "applied"
    BY Zenon DEF NextAccepted
  <2>1. ReplicaOK(node, committed) /\ committed \in 0..Len(Mutations)
    <3>1. pc # "down"
      OBVIOUS
    <3> QED BY <3>1, Numbers, Zenon DEF RecoveryInv, NodeOK
  <2> QED BY <2>1, ApplyNext, Zenon
<1> QED BY <1>1, RecoveryInvariance, PTL

\* Every record that PersistentMutationLog::append took with success is in a
\* log that replays or in a snapshot that opens, after any crashes, power
\* failures, failed writes, resets and restores, if the owner created the log
\* beforehand and appends nothing that makes replay refuse the log.
THEOREM Durable == ASSUME Prudent, LogCreated PROVE Spec => []AckedKept
<1>1. RecoveryInv => AckedKept
  <2> SUFFICES ASSUME RecoveryInv, NEW n \in acked
               PROVE  \/ ReplaySucceeds(log) /\ n <= Len(log.entries)
                      \/ SnapshotOpens(snapshot) /\ n <= snapshot.sequence
    BY Zenon DEF AckedKept
  <2>1. CASE n <= snapshotDisk.sequence
    <3>1. snapshotDisk.sequence <= snapshot.sequence
      BY Zenon DEF RecoveryInv, SnapshotOrder
    <3>2. n \in Nat \ {0}
      BY Zenon DEF RecoveryInv, AckedOK
    <3>3. n <= snapshot.sequence /\ snapshot.sequence > 0
      BY <2>1, <3>1, <3>2, Numbers
    <3>4. SnapshotOpens(snapshot)
      BY <3>3, Numbers, ImageFacts, Zenon DEF RecoveryInv, FilesOK
    <3> QED BY <3>3, <3>4, Zenon
  <2>2. CASE Holds(log, n)
    BY <2>2, Zenon DEF Holds
  <2> QED BY <2>1, <2>2, Zenon DEF RecoveryInv, AckedOK, Sure
<1> QED BY <1>1, RecoveryInvariance, PTL

\* A restart never fails for good when the owner appends nothing that makes
\* replay refuse the log: replay accepts it, apply refuses none of its records,
\* and where it ends before the snapshot, that one opens.  Whatever the owner
\* does, the snapshot is not older than the last that was written with success.
THEOREM Restarts == ASSUME Prudent PROVE Spec => []Restartable
<1>1. RecoveryInv => Restartable
  <2> SUFFICES ASSUME RecoveryInv PROVE Restartable
    OBVIOUS
  <2>1. pc # "refused"
    BY Zenon DEF RecoveryInv, NodeOK
  <2>2. checkpoint <= snapshotDisk.sequence /\ snapshotDisk.sequence <= snapshot.sequence
    BY Zenon DEF RecoveryInv, SnapshotOrder
  <2>3. snapshot.sequence >= checkpoint
    BY <2>2, Numbers
  <2>4. LogIsNewer \/ SnapshotOpens(snapshot)
    <3>1. ReplaySucceeds(log)
      BY Zenon DEF RecoveryInv, LogOK
    <3>2. Len(log.entries) >= snapshot.sequence \/ snapshot.sequence > 0
      BY Numbers
    <3> QED BY <3>1, <3>2, Numbers, ImageFacts, Zenon DEF RecoveryInv, FilesOK, LogIsNewer
  <2> QED BY <2>1, <2>3, <2>4, Zenon DEF Restartable
<1> QED BY <1>1, RecoveryInvariance, PTL

=============================================================================
