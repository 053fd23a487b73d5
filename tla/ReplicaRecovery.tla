--------------------------- MODULE ReplicaRecovery ---------------------------
(***************************************************************************)
(* A replica that survives restarts: PersistentMutationLog, the ordered    *)
(* log of one replica kept in a write-ahead log file, recover_replica,     *)
(* write_replica_snapshot and OrderedReplica::restore.                     *)
(*                                                                         *)
(* The process that owns the replica is not part of the repository; it     *)
(* does what docs/replica_recovery.md asks of it: it applies a record,     *)
(* appends it, and acknowledges it only when the append has succeeded; a   *)
(* failed append ends it.  It resets the log only when a snapshot covers   *)
(* what the replica has applied, and starts from the log unless that       *)
(* cannot be replayed or ends before the snapshot does.  The records come  *)
(* from the primary's retained log, in any order and again and again, or   *)
(* not at all.                                                             *)
(*                                                                         *)
(* That is not enough to keep what was acknowledged.  Two constants say    *)
(* what an owner may do beyond the documentation: create the log and fsync *)
(* its directory first (LogCreated), and keep out of the log, and so not   *)
(* acknowledge, a record that would make it one that replay refuses        *)
(* (Prudent).                                                              *)
(*                                                                         *)
(* Two kinds of failure: the process dies (the kernel keeps what was       *)
(* written) or the power goes (what was not fsynced may be lost, and so    *)
(* may the name of a file whose directory was never fsynced).  Log and     *)
(* snapshot are in one directory.                                          *)
(*                                                                         *)
(*   entry     a record as it is in the log: [id, version, shard, epoch,   *)
(*             document, number, deleted, fields], the operation ID and    *)
(*             the sequence in the place of a document's ID and version    *)
(*   log file  [exists, entries, torn]: torn when a part of a record       *)
(*             follows the last entry                                      *)
(*   snapshot  [sequence, documents, synced]: the segment ID, the records  *)
(*             of the index, and whether its bytes were fsynced            *)
(***************************************************************************)
EXTENDS OrderedReplica, Sequences

CONSTANTS
  Shard, Epoch,
  Mutations,       \* the documents that the primary commits, in this order
  OperationNames,  \* and the operation ID of each
  MaxLogRecords,   \* WalLimits::maximum_records, which only replay enforces
  LogCreated,      \* the owner made the log's name durable before it started
  Prudent,         \* the owner appends only what replay will accept
  MaxCrashes,      \* bound: deaths of the process
  MaxPowerLosses,  \* bound: power failures
  MaxFaults        \* bound: failed I/O operations

\* What the primary's retained log guarantees: submit refuses an operation
\* twice, and the primary has applied every record itself, so that the schema
\* accepts it and its version is newer than those before it.
ASSUME RecoveryAssumption ==
  /\ Shard \in Nat \ {0} /\ Epoch \in Nat \ {0}
  /\ Mutations \in Seq([id : STRING \ {""}, version : Nat, deleted : BOOLEAN, valid : {TRUE}])
  /\ \A i, j \in 1..Len(Mutations) :
       i < j /\ Mutations[i].id = Mutations[j].id => Mutations[i].version < Mutations[j].version
  /\ OperationNames \in Seq(STRING \ {""}) /\ Len(OperationNames) = Len(Mutations)
  /\ \A i, j \in 1..Len(OperationNames) : OperationNames[i] = OperationNames[j] => i = j
  /\ MaxLogRecords \in Nat /\ {LogCreated, Prudent} \subseteq BOOLEAN
  /\ {MaxCrashes, MaxPowerLosses, MaxFaults} \subseteq Nat

VARIABLES
  committed,     \* how many of the mutations the primary has committed
  node,          \* the replica in memory, while the process runs
  pc,            \* "down", "idle" or the step of the call under way
  log,           \* the log file as the process sees it
  logDisk,       \* and its bytes as far as they were fsynced
  logEntry,      \* the file's name is durable
  temporary,     \* the snapshot's temporary file
  snapshot,      \* the snapshot as the process sees it
  snapshotDisk,  \* and as the directory on disk has it
  acked,         \* history: the sequences that were appended with success
  checkpoint,    \* history: the sequence of the last snapshot that succeeded
  failures       \* what was used of each bound

files == <<log, logDisk, logEntry, temporary, snapshot, snapshotDisk>>
history == <<acked, checkpoint>>
vars == <<committed, node, pc, log, logDisk, logEntry, temporary, snapshot, snapshotDisk,
          acked, checkpoint, failures>>

NoFile == [exists |-> FALSE, entries |-> <<>>, torn |-> FALSE]
NoSnapshot == [sequence |-> 0, documents |-> {}, synced |-> TRUE]
Garbage == [sequence |-> -1, documents |-> {}, synced |-> TRUE]
NoReplica == [EmptyReplica(Shard, Epoch) EXCEPT !.applied = -1]

RecordAt(n) == [shard |-> Shard, epoch |-> Epoch, op |-> OperationNames[n],
                sequence |-> n, doc |-> Mutations[n]]

----------------------------------------------------------------------------
(* PersistentMutationLog: a record wrapped as a document of the log *)

Wrap(record) ==
  [id |-> record.op, version |-> record.sequence, shard |-> record.shard,
   epoch |-> record.epoch, document |-> record.doc.id, number |-> record.doc.version,
   deleted |-> record.doc.deleted, fields |-> record.doc.valid]

Unwrap(entry) ==
  [shard |-> entry.shard, epoch |-> entry.epoch, op |-> entry.id,
   sequence |-> entry.version,
   doc |-> [id |-> entry.document, version |-> entry.number,
            deleted |-> entry.deleted, valid |-> entry.fields]]

\* append refuses a record without an identity.
AppendRefused(record) ==
  \/ record.shard = 0 \/ record.epoch = 0 \/ record.sequence = 0
  \/ record.op = "" \/ record.doc.id = ""

\* replay accepts an entry in the place where it expects a sequence.
EntryValid(entry, expected) ==
  /\ entry.id # "" /\ entry.version = expected
  /\ entry.shard = Shard /\ entry.epoch = Epoch

\* The write-ahead log's own replay refuses a file with more records than its
\* limit; append has no such limit.  The limits on the bytes of the file and
\* of a record, which replay alone enforces too, are not distinguished.
WithinLimits(file) == Len(file.entries) <= MaxLogRecords

ReplaySucceeds(file) ==
  /\ WithinLimits(file)
  /\ \A i \in DOMAIN file.entries : EntryValid(file.entries[i], i)

\* The write-ahead log's replay cuts a torn tail off, once it is through with
\* the file and before the entries are looked at.
Repaired(file) == IF WithinLimits(file) THEN [file EXCEPT !.torn = FALSE] ELSE file

----------------------------------------------------------------------------
(* The primary, and a record that reaches the replica *)

Commit ==
  /\ committed < Len(Mutations)
  /\ committed' = committed + 1
  /\ UNCHANGED <<node, pc, files, history, failures>>

Written(file, entry) ==
  [exists |-> TRUE, entries |-> Append(file.entries, entry), torn |-> FALSE]

\* Whether the owner appends the record that it has applied.
Appends(record) == Prudent => ReplaySucceeds(Written(log, Wrap(record)))

\* apply; a record that is not applied changes nothing.
Deliver(n) ==
  /\ pc = "idle" /\ n <= committed
  /\ ApplyOutcome(node, RecordAt(n)) = "applied"
  /\ node' = Apply(node, RecordAt(n))
  /\ pc' = IF Appends(RecordAt(n)) THEN "append" ELSE "idle"
  /\ UNCHANGED <<committed, files, history, failures>>

----------------------------------------------------------------------------
(* append: open, write and flush; then fsync *)

PartlyWritten(file) == [file EXCEPT !.exists = TRUE, !.torn = TRUE]

Pending == Wrap(RecordAt(node.applied))

AppendWrites ==
  /\ pc = "append"
  /\ ~AppendRefused(RecordAt(node.applied))
  /\ log' = Written(log, Pending)
  /\ pc' = "append_sync"
  /\ UNCHANGED <<committed, node, logDisk, logEntry, temporary, snapshot, snapshotDisk,
                 history, failures>>

\* A mutated form: the record is acknowledged when it is written.
AppendUnsynced ==
  /\ pc = "append_sync"
  /\ acked' = acked \cup {node.applied}
  /\ pc' = "idle"
  /\ UNCHANGED <<committed, node, files, checkpoint, failures>>

AppendSyncs ==
  /\ pc = "append_sync"
  /\ logDisk' = log
  /\ acked' = acked \cup {node.applied}
  /\ pc' = "idle"
  /\ UNCHANGED <<committed, node, log, logEntry, temporary, snapshot, snapshotDisk,
                 checkpoint, failures>>

\* What the log may hold when a write is cut short.
LogsAfterCrash ==
  IF pc = "append" THEN {log, PartlyWritten(log), Written(log, Pending)} ELSE {log}

----------------------------------------------------------------------------
(* reset *)

ResetTruncates ==
  /\ pc = "idle"
  /\ checkpoint = node.applied /\ log.entries # <<>>
  /\ log' = [exists |-> TRUE, entries |-> <<>>, torn |-> FALSE]
  /\ pc' = "reset_sync"
  /\ UNCHANGED <<committed, node, logDisk, logEntry, temporary, snapshot, snapshotDisk,
                 history, failures>>

ResetSyncs ==
  /\ pc = "reset_sync"
  /\ logDisk' = log
  /\ pc' = "idle"
  /\ UNCHANGED <<committed, node, log, logEntry, temporary, snapshot, snapshotDisk,
                 history, failures>>

----------------------------------------------------------------------------
(* write_replica_snapshot and SegmentWriter::write *)

\* An empty replica has no snapshot.
SnapshotStarts ==
  /\ pc = "idle"
  /\ node.applied # 0 /\ checkpoint # node.applied
  /\ temporary' = [sequence |-> node.applied, documents |-> node.documents,
                   synced |-> FALSE]
  /\ pc' = "snapshot_sync"
  /\ UNCHANGED <<committed, node, log, logDisk, logEntry, snapshot, snapshotDisk,
                 history, failures>>

\* fsynced, then read back.
SnapshotSyncs ==
  /\ pc = "snapshot_sync"
  /\ temporary' = [temporary EXCEPT !.synced = TRUE]
  /\ pc' = "snapshot_rename"
  /\ UNCHANGED <<committed, node, log, logDisk, logEntry, snapshot, snapshotDisk,
                 history, failures>>

SnapshotRenames ==
  /\ pc = "snapshot_rename"
  /\ snapshot' = temporary
  /\ temporary' = NoSnapshot
  /\ pc' = "directory_sync"
  /\ UNCHANGED <<committed, node, log, logDisk, logEntry, snapshotDisk, history, failures>>

\* A mutated form: the directory is not fsynced.
DirectoryNotSynced ==
  /\ pc = "directory_sync"
  /\ checkpoint' = snapshot.sequence
  /\ pc' = "idle"
  /\ UNCHANGED <<committed, node, files, acked, failures>>

DirectorySyncs ==
  /\ pc = "directory_sync"
  /\ snapshotDisk' = snapshot
  /\ logEntry' = log.exists
  /\ checkpoint' = snapshot.sequence
  /\ pc' = "idle"
  /\ UNCHANGED <<committed, node, log, logDisk, temporary, snapshot, acked,
                 failures>>

----------------------------------------------------------------------------
(* Failures *)

Fails(kind, limit) ==
  /\ failures[kind] < limit
  /\ failures' = [failures EXCEPT ![kind] = @ + 1]

\* An error while a snapshot is written: the temporary file is removed, what
\* was renamed stays.
SnapshotFails ==
  /\ pc \in {"snapshot_sync", "snapshot_rename", "directory_sync"}
  /\ Fails("faults", MaxFaults)
  /\ temporary' = NoSnapshot
  /\ pc' = "idle"
  /\ UNCHANGED <<committed, node, log, logDisk, logEntry, snapshot, snapshotDisk, history>>

Dies ==
  /\ node' = NoReplica
  /\ pc' = "down"
  /\ temporary' = NoSnapshot

\* An append or a reset fails, and its caller ends.
LogFails ==
  /\ pc \in {"append", "append_sync", "reset_sync"}
  /\ Fails("faults", MaxFaults)
  /\ Dies
  /\ log' \in LogsAfterCrash
  /\ UNCHANGED <<committed, logDisk, logEntry, snapshot, snapshotDisk, history>>

Crash ==
  /\ pc # "down"
  /\ Fails("crashes", MaxCrashes)
  /\ Dies
  /\ log' \in LogsAfterCrash
  /\ UNCHANGED <<committed, logDisk, logEntry, snapshot, snapshotDisk, history>>

\* What a power failure may leave of a log that the process saw: the bytes
\* that were fsynced, those and a part of the next record, or all.
LogsAfterPowerLoss(seen) ==
  IF ~seen.exists THEN {NoFile}
  ELSE {[logDisk EXCEPT !.exists = TRUE], seen}
         \cup (IF Len(seen.entries) > Len(logDisk.entries) THEN {PartlyWritten(logDisk)}
                                                           ELSE {})
         \cup (IF logEntry THEN {} ELSE {NoFile})

\* And of a snapshot: the name may still be that of the one before, the
\* bytes of a file that was not fsynced may be anything.
SnapshotsAfterPowerLoss ==
  {snapshotDisk, snapshot} \cup (IF snapshot.synced THEN {} ELSE {Garbage})

PowerLoss ==
  /\ Fails("losses", MaxPowerLosses)
  /\ Dies
  /\ \E seen \in LogsAfterCrash : log' \in LogsAfterPowerLoss(seen)
  /\ logDisk' = log'
  /\ logEntry' = log'.exists
  /\ snapshot' \in SnapshotsAfterPowerLoss
  /\ snapshotDisk' = snapshot'
  /\ UNCHANGED <<committed, acked, checkpoint>>

----------------------------------------------------------------------------
(* Restart *)

\* replay has looked at the log in either case.
LogRead ==
  /\ log' = Repaired(log)
  /\ logDisk' = IF log.torn THEN log' ELSE logDisk

\* A mutated form: a log must be newer than what is not there.
LogIsStrictlyNewer == ReplaySucceeds(log) /\ Len(log.entries) > snapshot.sequence

LogIsNewer == ReplaySucceeds(log) /\ Len(log.entries) >= snapshot.sequence

\* recover_replica: the log is replayed into records, and the replica is empty.
Recover ==
  /\ pc = "down"
  /\ LogIsNewer
  /\ node' = EmptyReplica(Shard, Epoch)
  /\ LogRead
  /\ pc' = "replay"
  /\ UNCHANGED <<committed, logEntry, temporary, snapshot, snapshotDisk, history, failures>>

\* Its loop applies a record; a record that is refused ends it with the error.
\* The sequences are those of the places in the log, so none is a duplicate and
\* the applied sequence counts the turns.
ReplayRecord ==
  /\ pc = "replay" /\ node.applied < Len(log.entries)
  /\ LET record == Unwrap(log.entries[node.applied + 1]) IN
       /\ node' = Apply(node, record)
       /\ pc' = IF Acknowledges(node, record) THEN "replay" ELSE "refused"
  /\ UNCHANGED <<committed, files, history, failures>>

ReplayDone ==
  /\ pc = "replay" /\ node.applied >= Len(log.entries)
  /\ pc' = "idle"
  /\ UNCHANGED <<committed, node, files, history, failures>>

\* SegmentReader::open reads a complete segment, and every record of it is
\* put.
SnapshotOpens(file) == file.sequence > 0 /\ \A doc \in file.documents : doc.valid

\* A mutated form: the restored replica starts counting anew.
RestoredUncounted(file) ==
  [EmptyReplica(Shard, Epoch) EXCEPT !.documents = file.documents]

\* The operations that the snapshot covers are not remembered.
Restored(file) ==
  [EmptyReplica(Shard, Epoch) EXCEPT !.applied = file.sequence,
                                     !.documents = file.documents]

Restore ==
  /\ pc \in {"down", "refused"}
  /\ pc = "down" => ~LogIsNewer
  /\ SnapshotOpens(snapshot)
  /\ node' = Restored(snapshot)
  /\ LogRead
  /\ pc' = "idle"
  /\ UNCHANGED <<committed, logEntry, temporary, snapshot, snapshotDisk, history, failures>>

----------------------------------------------------------------------------
Init ==
  /\ committed = 0
  /\ node = EmptyReplica(Shard, Epoch)
  /\ pc = "idle"
  /\ log = [NoFile EXCEPT !.exists = LogCreated] /\ logDisk = log /\ logEntry = LogCreated
  /\ temporary = NoSnapshot /\ snapshot = NoSnapshot /\ snapshotDisk = NoSnapshot
  /\ acked = {} /\ checkpoint = 0
  /\ failures = [crashes |-> 0, losses |-> 0, faults |-> 0]

\* The steps of a call that has begun.
Running == \/ AppendWrites \/ AppendSyncs \/ ResetSyncs
           \/ SnapshotSyncs \/ SnapshotRenames \/ DirectorySyncs
           \/ ReplayRecord \/ ReplayDone

Next ==
  \/ Commit
  \/ \E n \in DOMAIN Mutations : Deliver(n)
  \/ Running
  \/ ResetTruncates \/ SnapshotStarts
  \/ SnapshotFails \/ LogFails \/ Crash \/ PowerLoss
  \/ Recover \/ Restore

Spec == Init /\ [][Next]_vars

\* The calls of a running process go on, and a dead one is restarted in one
\* way or the other.  Nothing makes the primary send what the replica lacks:
\* set_health replays the retained log from its first record and gives up at
\* the first error, which a restored replica answers at once.
FairSpec ==
  /\ Spec
  /\ WF_vars(Running)
  /\ WF_vars(Recover \/ Restore)

----------------------------------------------------------------------------
(* Properties *)

\* The documents that the first n mutations leave: the last of each ID.
Image(n) ==
  {Mutations[i] : i \in {i \in 1..n :
                           \A j \in 1..n : Mutations[j].id = Mutations[i].id => j <= i}}

\* However the replica came to be (recover_replica, restore, catch-up after
\* either, a log that was reset or lost and begun again), its index is the
\* one of the prefix of the primary's log that it says it has applied, and
\* no record of that prefix is applied to it again.
ReplicaFaithful ==
  pc # "down" =>
    /\ node.applied \in 0..committed
    /\ node.documents = Image(node.applied)
    /\ \A n \in 1..node.applied :
         ApplyOutcome(node, RecordAt(n)) \in {"duplicate", "stale_sequence"}

\* A replica that serves accepts the record after the last that it has
\* applied, whatever it was recovered or restored from and although a restored
\* one has forgotten its operations: catch-up can begin there.
NextAccepted ==
  pc = "idle" /\ node.applied < committed =>
    ApplyOutcome(node, RecordAt(node.applied + 1)) = "applied"

\* Every record whose append succeeded can be recovered from the log or
\* restored from the snapshot, through crashes, power failures, failed and
\* cut-off appends, resets and restores.  An owner that is prudent and has
\* created the log is sure of it; the documentation says it of every owner.
AckedKept ==
  \A n \in acked :
    \/ ReplaySucceeds(log) /\ n <= Len(log.entries)
    \/ SnapshotOpens(snapshot) /\ n <= snapshot.sequence

\* The replica can always be started again, from a log that recover_replica
\* takes to its end or from a snapshot that opens, and from one that is at
\* least as new as the last snapshot that was written with success.
Restartable ==
  /\ pc # "refused"
  /\ LogIsNewer \/ SnapshotOpens(snapshot)
  /\ snapshot.sequence >= checkpoint

\* And comes back: recovery and restoration end.
ComesBack == (pc = "down") ~> (pc = "idle")
=============================================================================
