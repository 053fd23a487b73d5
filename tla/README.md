# A TLA+ verification of the distributed search engine

This directory holds TLA+ models of `distributed-search-engine`, the TLC runs
that check them on small instances, and TLAPS proofs for every instance. All
source paths below are relative to the repository (`src/` in the paths of
`PROJECT.json`). Every definition that models code has its file and lines in
`PROJECT.json` under `map`.

    tlc -workers 2 -config WriterConcurrent.cfg MCIndexWriter   # one run
    tlapm IndexWriterProofs.tla                                 # the proofs
    tlapm ReplicationProofs.tla
    tlapm ReplicaRecoveryProofs.tla
    tlapm TcpServerProofs.tla
    tlapm ShardRpcProofs.tla
    tlapm IndexProofs.tla
    tlapm QueryCacheProofs.tla
    tlapm ListFacts.tla

## 1. Inventory

| Component (files) | State | Operations | Interacts with | What is hard | What makes it correct |
|---|---|---|---|---|---|
| Index writer (`storage/index_writer.*`) | active index, frozen queue, `versions_`, `manifest_`, flags, one mutex, one condition variable, `publication_mutex_` | `put`, `erase`, `refresh`, `merge_all`, `open_search_view`, `open`, destructor; a background publisher | drives the log, the segments, the manifest store, compaction | producers, refreshers, readers and the publisher share one lock and one condition variable; a crash or an I/O error between any two steps | acknowledged mutations survive, refreshed ones are searchable, the directory can be reopened, nobody waits for ever |
| Write-ahead log (`storage/write_ahead_log.*`) | one file | `append`, `replay`, `reset` | called by the writer under its mutex, and by the replica log | torn and failed appends | what was appended is replayed; a torn tail is cut, never buried |
| Manifest store (`storage/manifest.*`) | `MANIFEST-N` files, `CURRENT` | `publish`, `load_current`, `open_current` | called under `publication_mutex_` or `mutex_` | failure or crash between the manifest and `CURRENT` | `CURRENT` always names a complete generation, and generations only grow |
| Generations, merging (`storage/generation.*`) | none (values) | `GenerationView::open`, `merge_segments` | read segments while others are removed | versions and tombstones meet in any combination | the newest version wins, tombstones included |
| Segment format, posting codec (`storage/segment.*`, `posting_codec.*`) | immutable files | write, open, look up | under the manifest store | byte-level damage | what is written is read back |
| In-memory index (`index/in_memory_index.*`) | documents, internal IDs, posting lists, statistics | `put`, `erase`, look-ups, `validate_invariants` | owned by the writer, replicas, clusters | five structures updated incrementally, undoing the previous version | it equals the index built from the live documents |
| Query planner, executor, ranking (`query/planner.*`, `executor.*`, `ranking/*`) | a plan | `plan`, `search`, `explain` | read an index through `SearchIndexView` | a plan outlives the state it was made for; sorted-list merges; ties at the cut | the answer is what the query means; plans are canonical |
| Query cache, lexer, parser (`query/*`) | LRU list and map; none | `get`, `put`, `invalidate_before`; parse | keyed by canonical plan and generation | byte accounting; results of an old generation | bounded; never a stale result |
| Replication (`distributed/replication.*`) | retained log, operation indices, replicas with health | `submit`, `set_health`, `statuses`, `select_read_replica` | applies records to in-memory indexes | retries, partial acknowledgement, catch-up, routing on a copied status | replicas converge; a receipt keeps its promise; reads are as fresh as asked |
| Replica log and recovery (same file) | one log file, snapshots | `append`, `replay`, `reset`, `recover_replica`, `write_replica_snapshot`, `restore` | the write-ahead log, segments | restart between any two of these | a recovered replica is a prefix of the log |
| TCP service (`distributed/tcp_transport.*`) | bounded queue of connections, threads, gauges | `start`, accept loop, worker loop, `stop` | shard RPC on each connection | overload, lost wakeups, stop racing everything | no descriptor leaks, no wakeup is lost, stop drains |
| Shard RPC, local cluster (`distributed/shard_rpc.*`, `local_cluster.*`) | none; shards and a global index | search over a socket; put and fan-out search | executor, TCP service | deadlines inside a frame; one of two indexes refuses | one frame, one answer; the cluster answers as one index would |
| Analyzers, document files, telemetry, evaluation, programs | counters at most | pure functions, I/O | | | |

The hazards, each at its line and with the properties aimed at it, are listed in
`PROJECT.json` under `hazards`.

## 2. Modules

| Module | Models |
|---|---|
| `IndexWriter` | the writer with log, segments, manifests and views; its properties and its inductive invariant |
| `IndexWriterProofs` | type correctness of each step; the invariant and the theorems; what readers and a restart rely on |
| `OrderedReplica` | one replica: what `apply` answers and changes |
| `Replication` | the group (extends `OrderedReplica`); refines `ReplicatedLog` |
| `ReplicatedLog` | the abstract specification of a replication group |
| `ReplicationProofs` | the inductive invariant of the group, the theorems, and the refinement of `ReplicatedLog` |
| `ReplicaRecovery` | a replica with its persistent log and its snapshots through failures (extends `OrderedReplica`) |
| `ReplicaRecoveryProofs` | its inductive invariant and theorems |
| `Lists` | sorting a list and erasing from it, stated by the order of positions |
| `ListFacts` | lemmas for all proofs: least and greatest numbers of a set, the orders of `Lists`, sums |
| `InMemoryIndex` | the inverted index, as functions of an index value |
| `LocalShards` (extends `InMemoryIndex`) | the documents of a cluster: `put` and `erase` on the global index and a shard |
| `TopK` | the collector of the best hits |
| `QueryPlanner` (extends `InMemoryIndex`, `TopK`) | validation, expansion, normalisation and canonical text of plans |
| `QuerySearch` (extends `QueryPlanner`) | evaluation, `explain`, and what a query means, stated without postings |
| `LocalCluster` (extends `QuerySearch`, `LocalShards`) | the state machine of index, planner and executor: mutations, searches over all shards, prepared plans |
| `QueryParser`, `PostingCodec` | lexer and parser; variable-byte integers and compressed posting lists |
| `CodecInput` (extends `PostingCodec`) | lists of numbers, postings and bytes of any length, and what the codec promises for them |
| `Formats` (extends `QueryParser`, `CodecInput`) | every input up to a bound, one element at a time, against reference definitions |
| `IndexProofs` (extends `LocalShards`, `TopK`, `CodecInput`) | the index, the partition into shards, the merge of their hits and the codec: invariant and theorems |
| `QueryCache`, `QueryCacheProofs` | the result cache; its inductive invariant and theorem |
| `TcpServer` | acceptor, workers and `stop` |
| `TcpServerProofs` | its inductive invariant and theorems |
| `ShardRpc` | one remote search: connecting, frames, deadlines, on both ends |
| `ShardRpcProofs` | its inductive invariant and the theorem on answers |
| `MC...` | the small instances of each for TLC; `MCQueryParts` has those of `Formats` and `QueryCache`, two machines that share nothing, side by side |

### How the models correspond to the code

**IndexWriter.** One variable per member (`versions`, `active`, `buffered`,
`frozen`, `manifest`, `busy`, `refreshing`, `stopping`, `error` for
`worker_error_`), the directory (`wal`, `torn`, `segs`, `manifests`,
`current`) and a program counter for each thread. A critical section is one
step; where the code does I/O under the lock (log append, log reset, opening a
view) the lock is held across steps, so that a crash, or a thread that needs no
lock, comes in between. `condition_.wait` puts a thread into `asleep`; only the
`notify_all` calls of the code take it out. There are no spurious wakeups in
the model: each wait has a predicate that is evaluated again, so they would only
add stuttering, and leaving them out is the stricter choice for liveness.
A publication (`job`) is the code between taking and releasing
`publication_mutex_`, shared by flush and compaction: segment file, validation,
manifest file, `CURRENT`, `manifest_`, reclamation, each a step that may be the
last before a crash or, for the names in `FaultPoints`, fail. Indexes and segments are sets
of mutations `[id, version, deleted]`: document contents decide nothing here. A
document the schema refuses takes the path of a stale one (an error, nothing
changed) and is not modelled again. When `compact_published` indexes the opened
segments with a place out of range (possible when `manifest_` lags behind
`CURRENT` after a failed directory fsync) the process is taken to end
(`CompactOverrun`).

The history variable `overtaken` records the mutations of the first finding
(section 6), so that everything else about durability can be stated and proved.

**Replication.** `submit` is one step (it holds the mutex throughout and nobody
sees the order in which replicas apply a record); the catch-up loop of `set_health` is
one step per record, as it may stop at any record. The order of `apply`'s early
returns is kept. `inflight_` is 0 in every replica a group owns and is left out.

**ReplicaRecovery.** The variables are the replica (`node`), the log file and
the snapshot as the running kernel shows them and as the disk has them
(`log`/`logDisk`, `snapshot`/`snapshotDisk`, `temporary`), and whether the
directory's entry of the log is durable (`logEntry`). Appending, resetting and
writing a snapshot have a step for each write, fsync, rename and directory
fsync. `Crash` keeps what was written, `PowerLoss` keeps any part of what was not
fsynced, `LogFails` and `SnapshotFails` are failed I/O. `recover_replica`
applies the replayed records one step at a time (`ReplayRecord`), so that a
refusal of any of them shows. A record is in the log as a document
whose ID is the operation ID and whose version is the sequence, as `append`
wraps it, and `replay` unwraps and validates it again. The repository has the
operations but not the process that owns a replica; it is modelled (and marked
external) after `docs/replica_recovery.md`: apply, append, acknowledge; snapshot before reset;
start from the log unless it cannot be replayed or ends before the snapshot. `replay` refuses
a log with more records than `MaxLogRecords`, which `append` does not look at. Doing what the
documentation asks does not keep what was acknowledged (section 6), so two constants say
what an owner may do beyond it: `LogCreated`, it has created the log and fsynced the
directory before it starts; `Prudent`, it appends, and so acknowledges, only what leaves
the log one that `replay` accepts. Such an owner acknowledges nothing more once the log is full or
was reset, since no log that begins above sequence 1 can be replayed: its replica
goes on applying and writing snapshots. The code offers it no other way to be sure.

**InMemoryIndex, LocalShards, TopK, QueryPlanner, QuerySearch, LocalCluster.** A call is one step:
`InMemoryIndex` has no lock and works on copies that it swaps in at the end, and
the cluster holds its mutex. Posting lists are sequences, so that the
sort at the end of `put` is checked. Internal IDs have a width (`IdWidth`), so
that exhaustion and wrap-around happen. Queries and plans are records by kind.
The canonical text is a sequence of keys ordered the way the strings are.
BM25's formula is the parameter `Weight`, any function of the statistics that
the code passes; the conditions on which `BM25Scorer::score` refuses are kept. A shard
searches its own documents and postings with the statistics of the global index
(`ShardSearchView`). Mutations may come between `Prepare` and
`Execute` or `ExplainHit`. `put` changes the global index first; that the shard then
never refuses is part of `ShardsPartition`. A range is evaluated on stored metadata: of the
indexed fields, where `field_value` looks first, only keyword fields have ranges, and these are left out. The heap of `TopKCollector` is the
set of its hits; `Collected` is the executor's loop over its candidates, `Merged`
the cluster's loop over the answers of the shards.

`LocalShards` is the part of the cluster that mutations change. Every step of
`LocalCluster` either puts or erases as `StoreSpec` does or leaves `oracle` and `shards`
alone, so what is proved of `StoreSpec` holds of `LocalCluster`, where the run
checks it. The theorems are stated for `StoreSpec` because the planner and the
executor, recursive over plans, are out of the prover's reach.

**Formats.** The alphabet of a text is one unit for each case the lexer tells
apart (a delimiter, an escape, a word byte, a keyword in either case). The
parser's procedures are operators from a lexeme sequence and a place to an
error or a tree and the next place. Their reference is the grammar of
`docs/query_language.md` (`Trees`): the set of all trees that the documented rules give to a whole
lexeme sequence. The rules leave open whether `title:x^2` boosts the term or the field query; it
is read as a comment in `parse_primary` says. The parser refuses an adjacent NOT, which the
rules allow (section 6), and `ParserFaithful` says nothing about inputs that have one
(`AdjacentNot`). White space has two units, one that the lexer and the phrase check agree on
and one (`FormFeed`) that is white space for the lexer only. The codec has `PayloadBits` and `IntegerBits` in place of 7 and 32. `Encode` states the
result of the code's loop, the groups up to the last that is not zero, and the lists are
recursive functions over their length, one value or posting at a time as in the
code. A posting list is that of one term; `MaxPositions` is what the terms before it have left of
the segment's limit. `CodecInput` has the part of `Formats` that is about the codec: every
step of `FormatsNext` is one of `InputSpec`, since it only adds that no
lexeme follows one that the parser rejected. So what is proved of `InputSpec` holds of
the run's specification.

**QueryCache.** Every call holds the mutex throughout and is one step.
`uses` is a history variable: the list that a cache without a limit would have.

**TcpServer.** Every critical section and every call outside the lock is a
step, the two gauges of a worker included. `serve_one` is one step. The clients in `Silent`
do not read their answers: a worker that serves one is `Held`, and its step may never come
(`ShardRpc` has the write that blocks).

**ShardRpc.** A byte is a cell. `transfer` is a loop of polling under the
deadline and moving some of the cells; the sockets are blocking, so a write that
has begun goes on without another look at the deadline. Connecting tries one
address after the other. The connection may be reset, closed by either end at
any cell, or carry nothing more. An error response carries its message, one of `Complaints` or
the text for an invalid request, whose length counts against the frame limit like that of a result.
`Resolve` is `getaddrinfo`: it may end in a list of addresses, in an error, or not at all.

## 3. Runs

| Run | Instance | Properties |
|---|---|---|
| `WriterConcurrent` | 2 producers, 1 caller of `refresh`, `merge_all` and `close`, 2 versions of a document, queue and buffer of 1, automatic merge at 2 segments, 1 failed append or segment, `FairSpec` | `ManifestMatchesDisk`, `DurableUnlessOvertaken`, `RefreshedVisible`, `EveryPutReturns`, `EveryRefreshReturns`, `FrozenDrains` |
| `WriterFaults` | 1 producer, 2 callers of `merge_all`, 1 reader, 3 versions, a failure at any fault point | `NoFailedView`, `ViewShowsRefreshed`, `Recoverable`, `AckedDurable`, `PublishedMonotone` |
| `ReplicationGroup` | 3 nodes, 1 reader, 3 operations and the empty ID, 3 documents (one invalid), log limit 2, lags 0 and 1 | `Converged`, `ServingCaughtUp`, `AllReplicasHold`, `RetrySucceeds`, `ReadsFresh`, `ImplementsLog` |
| `ReplicaRecovery` | 4 mutations, 2 crashes, 1 power failure, 1 failed I/O, log limit 2, an owner with `LogCreated` and `Prudent`, `FairSpec` | `ReplicaFaithful`, `NextAccepted`, `AckedKept`, `Restartable`, `ComesBack` |
| `ClusterAnswers` | 2 shards, 4 documents for 3 internal IDs of 2 bits, refused requests, 22 queries, top-K of 0 to 2 | `IndexExact`, `ShardsPartition`, `ClusterAnswersAsOracle`, `AnswersMeanQuery`, `AnswersRanked`, `ExplanationsAddUp`, `PlansCanonical` |
| `QueryParts` | texts of up to 6 units, 5 lexemes, 2 values or postings, 5 bytes; integers of 5 bits in groups of 2; a cache with 2 generations of 2 queries and results of 4 sizes, one of them too large | `LexerFaithful`, `ParserFaithful`, `CodecFaithful`, `CacheFaithful` |
| `TcpService` | 3 connections (one silent), 2 workers, queue of 1, 2 callers of `stop`, `FairSpec` | `DescriptorsBounded`, `StopDrains`, `GaugesBalanced`, `AdmittedIsServed`, `StopWaitsForHeld` |
| `ShardRpc` | 10 requests (no, few, too many hits; too long; refused, with errors that fit and that do not), 2 addresses, a kernel buffer of 3 cells, `FairSpec` | `AnswerFaithful`, `DeadlineKept` |

Each of these runs exhibits one finding of section 6; TLC finds its property violated:

| Run | Instance | Property |
|---|---|---|
| `WriterOvertaken` | 2 producers and a refresh | `AckedDurable` |
| `WriterLogLimit` | a log limit below the number of puts | `Recoverable` |
| `ReplicaLogContinued` | an owner that has created the log, limit never reached | `AckedKept` |
| `RpcBlockedWrite` | a response larger than the buffer, `FairSpec` | `TransfersGoverned` |

Why these bounds are enough to meet the interesting cases:

- A queue and a buffer of 1 make every put freeze, every second one wait for
  room, and a refresh meet a full queue. Mutations of one document (put,
  erase, put) exercise replacement, tombstones and stale requests. `MaxSegmentId` and
  `MaxFaults` bound the segment IDs of merges and the failures; the
  versions bound everything else, since a put needs a newer version. A
  failure, with crashes at any step, leaves a torn record, a file that nobody names, or a `CURRENT` that
  is ahead of `manifest_` when a third mutation is flushed. Two flushes and a merge remove files
  that a reader may be about to open, and merges by two callers compete with the automatic one. `AckedDurable` holds
  with one producer only: the first finding takes two. All safety properties of the
  two runs are proved for every instance and every number of failures (section 4, `Recoverable` and `AckedDurable` with the
  hypotheses that the runs meet), so the bounds matter most for liveness.
- With a log limit of 2 and three operations, the log fills up and a third
  operation is refused while the first two are retried. Three nodes let one follower
  fail while another serves, and the primary is not the smallest node.
- Four mutations, two crashes and a power failure are enough for a snapshot, a
  reset, a restore and records applied after it; with a limit of two records the log fills
  up, and its owner then keeps a record out. `ReplicaFaithful` and `NextAccepted` hold
  for every owner (proved); the run has the careful one, because the other properties need it.
- Three IDs of two bits for four documents reach the last ID, the wrap to zero
  and the refusal after it. The queries hold every kind of node, gaps and
  repetitions in phrases, contradictory clauses and each kind of refusal. No range among them is reversed
  (section 6).
- The parser is run on every sequence of up to 5 lexemes and on its
  completions, so that nesting, ranges, stacked boosts and the limits on depth and
  length are met; a prefix the parser has already refused is not extended. 5 bits in
  groups of 2 leave one bit in the last byte, as 32 in groups of 7 leave four.
- The cache's limit of 7 holds one to three entries, so that one put evicts
  none, one or two; `MaxCount` bounds the counters.
- Three connections for a queue of one make rejections happen while both workers
  compete for a wakeup; a silent one among them leaves both the case of a worker that is left and
  that of none. A buffer smaller than a frame makes writes block.
  `CHECK_DEADLOCK FALSE` in the runs of `TcpServer`, `ShardRpc`, `ReplicaRecovery` and `MCQueryParts`: a stopped
  server, a finished call, a replica with nothing more to apply and a complete input
  really stop.

Symmetry is used only where every property is an invariant or an action property.

Each property of a passing run has a mutant in `PROJECT.json`: a plausible slip
in one mapped definition under which TLC finds the property violated.

### Fairness

All fairness is weak fairness of steps that a thread or the kernel takes on its
own; no strong fairness is used. Clients need not call, nobody need crash, fail
or reopen.

- `IndexWriter`, `TcpServer`: each thread's own steps and a publication in
  progress, but not the step of a worker that is `Held` by a silent client, which no deadline
  ends. So `AdmittedIsServed` says nothing when all workers are held, and
  `StopWaitsForHeld` lets `stop` wait for held workers and for nothing else. Threads that are neither blocked nor asleep are scheduled, and I/O
  returns. The mutexes are not assumed fair: `EveryPutReturns` assumes in its
  statement that refreshes come to an end, and `EveryRefreshReturns` that those of others do, since the
  code lets an endless stream of them keep a put or a refresh at its first wait.
- `ReplicaRecovery`: a call that has begun goes on and a dead process is started
  again. Nothing is assumed of the primary: `set_health` replays the retained log from its first
  record and gives up at the first error (`replication.cpp:20`), which a restored replica
  answers at once, its operations being forgotten. That the record it needs would be accepted is
  `NextAccepted`.
- `ShardRpc`: each end runs, deadlines pass, the kernel resets what arrives at a closed
  socket, and the server serves or closes an accepted connection, which is
  `AdmittedIsServed` of `TcpServer` (with a worker left). Nothing repairs the network, interrupts a blocked
  write or makes `getaddrinfo` return; `DeadlineKept` excepts the last two by name.

## 4. Proofs

`IndexWriterProofs` proves, for every set of threads, documents and
versions, every limit and every number of faults:

| Theorem | Statement | Meaning |
|---|---|---|
| `Invariance`, `WriterInvariance` | `Spec => []Inv`, `Spec => []WriterInv` | the inductive invariant, `Inv` being `TypeOK /\ WriterInv` |
| `TypeCorrect` | `Spec => []TypeOK` | |
| `Durability` | `Spec => []DurableUnlessOvertaken` | what put acknowledged is published or in the log |
| `Visibility` | `Spec => []RefreshedVisible` | what refresh promised is, and stays, published |
| `Readability` | `Spec => []CurrentOpens` | `CURRENT` names a manifest all of whose segments exist |
| `Monotonicity` | `Spec => PublishedMonotone` | no step publishes an older state |

Assumptions: `LimitsAssumption` (what `IndexWriter::open` enforces, and the
bounds of the model being numbers), `RequestsAssumption` (versions are a finite
set of numbers: they are 64-bit) and `ThreadsAssumption` (threads are distinct).

The argument. `Durability` is not inductive: a refresh empties the log, so one
has to know that by then everything in the log is published.
`WriterInv` therefore says where a logged mutation can be: published, active,
queued, or with the worker (`LogOK`); that once a refresh has frozen the active
index only overtaken mutations are active (`LogOK`, second part), so that after
the wait for an idle worker (`LockOK`: queue empty, not busy) and with the worker's
index published (`FlushOK`) nothing but overtaken mutations is lost by the
reset. For publications, `JobOK` follows a job through its stages: before
`CURRENT` is replaced the next generation covers the published one *provided*
`manifest_` is current; if a failed fsync has left it behind, `publish` refuses the
next generation because its number is not higher. `GenerationOK` keeps segment
IDs fresh, so that writing a file never replaces a published one, and the
published files out of reach of reclamation. `DownOK` and `ActiveOK` carry the
argument through crash and replay.

The module begins with one type lemma for each group of actions and the algebra
of `CoveredBy` (`NextId` needs the maxima of `ListFacts`). It then says what each
thread leaves alone (the `...Frame` lemmas), and which conjuncts each action disturbs
and why they hold again. Its third part is about readers and restarts (below).

`ReplicationProofs` proves, for every set of nodes, operations and documents,
every log limit and every permitted lag:

| Theorem | Statement | Meaning |
|---|---|---|
| `GroupInvariance` | `Spec => []GroupInv` | the inductive invariant, types included |
| `ReplicasConverge` | `Spec => []Converged` | the index of a replica is determined by how much of the log it has applied |
| `ServingReplicasCaughtUp` | `Spec => []ServingCaughtUp` | no replica is in service behind the log |
| `CatchUpNeverFails` | `Spec => []CatchUpSucceeds` | the loop of `set_health` meets no error |
| `RetriesSucceed` | `Spec => []RetrySucceeds` | a retry with all replicas in service is acknowledged by all |
| `ReceiptsHold` | `Spec => []AllReplicasHold` | a receipt for all replicas holds for good |
| `OneSequence` | `Spec => []OneSequencePerOperation` | one sequence for each operation |
| `ReadsStayFresh` | `Spec => []ReadsFresh` | a routed read finds what it was promised |
| `GroupImplementsLog` | `Spec => ImplementsLog` | the group implements `ReplicatedLog` |

Assumptions: `NodesAssumption` (the primary is a node), `DocumentsAssumption`
(versions are numbers) and `LimitAssumption`. The number of nodes need not be
finite.

The argument. `Converged` alone is not inductive: that a record is applied,
and not refused as an old version, depends on the versions in the log. The proof
therefore calls a log `Replayable` when its sequences are contiguous, its operations distinct,
its documents valid and the versions of each ID increasing, and a replica the image
(`ImageOf`) of a prefix. `ApplyImage` is the core: a record
within the prefix, or just after it, is acknowledged, and leaves the image of a
prefix again. `AdmitsReplayable` is the other half: the primary holds the
latest version of every logged ID (this takes the greatest position of the ID,
`NatMax`), so what it accepts keeps the log replayable. Each action then
only has to say which prefix each replica ends at.

`TcpServerProofs` proves, for every set of connections, workers and callers of
`stop`, and every queue limit:

| Theorem | Statement | Meaning |
|---|---|---|
| `ServerInvariance`, `TypeCorrect` | `Spec => []ServerInv`, `Spec => []TypeOK` | the inductive invariant; types |
| `StopDrainsAll` | `Spec => []StopDrains` | a returned `stop` leaves no thread, no open descriptor and no dropped connection |
| `DescriptorsStayBounded` | `Spec => []DescriptorsBounded` | overload is refused |
| `GaugesStayBalanced` | `Spec => []GaugesBalanced` | the gauges lag only by updates under way |
| `WakeupsArrive` | `Spec => []NoLostWakeup` | `notify_one` without the lock loses no wakeup |

Assumptions: `ThreadsAssumption` (roles are disjoint, workers are finitely many
and at least one) and `QueueAssumption`. The argument: `OwnerOK` gives every
open descriptor exactly one owner (a place of the queue, the acceptor or one
worker), so that closing one never touches another's; `StopOK` says that a
worker has left only an empty queue of a stopping server, which nobody fills
again. So there is nothing left to drop when `stop` has joined the workers. Gauges and
wakeups are inductive relative to these two; the bound on descriptors counts them by their owners.

The third part of `IndexWriterProofs` proves, with the same assumptions:

| Theorem | Statement | Meaning |
|---|---|---|
| `ViewInvariance` | `Spec => [](Inv /\ ViewInv)` | the invariant of readers and restarts, inductive together with `Inv` |
| `ViewsOpen` | `Spec => []NoFailedView` | no `open_search_view` fails, whatever is merged, published or removed meanwhile |
| `ViewsCurrent` | `Spec => []ViewShowsRefreshed` | a view shows what was refreshed before |
| `ManifestCurrent` | `Spec => []ManifestMatchesDisk` | `manifest_` is what `CURRENT` names when nobody publishes and nothing has failed |
| `Restart` | `Spec => [](Len(wal) <= WalLimit => Recoverable)` | the directory opens again after a crash at any step |
| `SoloDurability` | `Producers = {p}`, then `Spec => []AckedDurable` | one producer loses nothing it was acknowledged |

`Restart` and `SoloDurability` have a hypothesis because without it the
properties are false: these are the first two findings of section 6. The argument. A
view fails when a file of its generation is gone or when two of its segments disagree
about one version. For the first, `ViewOK` keeps the generation that a reader
opens while the reader has the lock, since reclamation begins only after
`manifest_` was replaced under the same lock. For the second, `UniqueOK` says that all that is or may be
published (segments, queue, active index, the worker's snapshot) has one
content for each version; `put` keeps it because `versions_` covers all of them, a merge because
its input is published (`SourceOK`), a restart because replay
takes a record only when it is newer. `TornOK`: a partial record is never buried
under another one, as the error of a failed append sticks. With one producer nothing
is ever `overtaken`: the put that fills the active index freezes it before it
returns, so the next one never waits for room at its beginning, which is where
a refresh passes a put by (`SoloOK`).

`ReplicaRecoveryProofs` proves, for every sequence of mutations and every number
of crashes, power failures and failed writes:

| Theorem | Statement | Meaning |
|---|---|---|
| `RecoveryInvariance` | `Spec => []RecoveryInv` | the inductive invariant |
| `Faithful` | `Spec => []ReplicaFaithful` | a replica is the image of the prefix that it says it has applied, and applies nothing of it again |
| `CatchUpBegins` | `Spec => []NextAccepted` | a serving replica accepts the record after its last, whatever it came from |
| `Durable` | `Prudent`, `LogCreated`, then `Spec => []AckedKept` | what was acknowledged is in a log that replays or a snapshot that opens |
| `Restarts` | `Prudent`, then `Spec => []Restartable` | no log that `replay` accepts holds a record that `apply` refuses, and a log that it refuses has a snapshot beside it |

The hypotheses of `Durable` and `Restarts` are what the code does not see to: without them the
properties are false (section 6).

Assumption: `RecoveryAssumption`, what a primary logs: valid documents, versions that grow for each ID
and distinct operation IDs (`Replayable` of `ReplicationProofs`,
proved there of every group). The argument: `FilesOK` and `NodeOK` say that every
log entry is the wrapped record of its own sequence and that the replica and both snapshots (the one the
running kernel shows and the one on disk) are images of prefixes; `Faithful` and
`CatchUpBegins` need no more, whoever owns the replica. This alone does
not keep what was acknowledged. `AckedOK` places each acknowledged record, if the owner is
careful, in the snapshot *on disk*, or in both the log and its fsynced bytes; `LogOK` says what its
care gives: the log has a durable name, and the log, its fsynced bytes and the
log with the record that is being appended are ones that `replay` accepts. `SnapshotOrder` keeps the snapshots in
the order in which they were written, so that a power failure between rename and directory
fsync leaves one that is recent enough.

`ShardRpcProofs` proves, for all requests and hits, all limits of both ends, every
size of the kernel's buffer and every way to cut a transfer into pieces:

| Theorem | Statement | Meaning |
|---|---|---|
| `RpcInvariance` | `Spec => []RpcInv` | the inductive invariant |
| `AnswersFaithful` | `Spec => []AnswerFaithful` | the client returns the complete answer to its own request or an error that is true |

Assumptions: `LimitsAssumption` (limits are numbers, and a frame's length fits its
field) and `RequestsAssumption` (a query is a string, `top_k` a number, a hit an ID
and a score). The argument: for each direction there are two places in the frame, up to which it was read
and written (`Flow`); the reader's cells, the buffer and the writer's cells are the slices
of the frame that these places cut. A read or write of n cells moves a place by n
(`FlowReads`, `FlowWrites`), so a complete header is the length of
the message and a complete payload the message itself. `DecodedTruth` then says
what the client makes of it: encoding and decoding are inverse, and the server refuses exactly
what `Refuses` says.

`IndexProofs` proves, for every set of documents, fields and terms, every number
of shards, every hash and every width of the internal IDs:

| Theorem | Statement | Meaning |
|---|---|---|
| `StoreInvariant` | `StoreSpec => []StoreInv` | the inductive invariant |
| `IndexesExact` | `StoreSpec => []IndexExact` | the global index and every shard are the indexes built from their live documents |
| `ShardsArePartition` | `StoreSpec => []ShardsPartition` | the shards are a partition of the global index, and no put fails half way |
| `TopHitsAreBest` | for every list of distinct candidates and every k | the collector returns the k best, in order, whatever the order of the candidates |
| `MergedAsOne` | for all lists of candidates that share none | the k best of the k best of each list are the k best of all, and `results` lists them alike |
| `MergesAreFaithful` | `StoreSpec => []MergeFaithful` | whatever the shards find among their documents, cutting and merging it gives what one index gives that finds it all |

Assumptions: `WidthAssumption` and `RequestAssumption` (an ID has a hash, versions are
numbers, no term is empty), `ShardAssumption` (what `create` enforces) and `AlphabetAssumption`
(the order of the strings of an instance is a sequence of them). The argument.
`IndexExact` is not inductive by itself: removing the postings of the previous
version relies on internal IDs naming one document each. `IndexOK` has
three parts: the IDs (`IdsOK`: given out in the order of first puts,
never twice, also after the counter has wrapped around), the posting lists (`Exact`), and
the statistics. Each is carried over a put in two halves, what is left
without the previous version of the document and what the new version adds. That the sorted
list is *the* list expected takes that a strict order lists a set in one
way (`SameOrder`); the statistics are sums over the live documents, of
which one term changes (`SumSplit`, an induction over the subsets of a finite set by
their cardinality). For the partition, a shard has no more documents than the
global index and so never runs out of IDs first.

For the collector, `IsBest(H, S, k)` says that H has the k best hits of S.
There is one such set (`OneBest`: if two differed, each would have a hit better than one of
the other). `CollectBest` carries it over one candidate, `CollectedBest` and
`MergedBest` over lists, by the least place at which it would fail.
`PartsBest` is the reason why shards may cut: a hit that a shard leaves out has k
better ones on that shard alone. Ties in score do no harm because the ID makes the order total
(`BetterOrder`); with the mutated form that compares scores only, no such theorem holds.
With `StoreInv`, documents found on different shards differ, which `MergedAsOne` needs.

Of the codec `IndexProofs` proves, for every width of integers and groups, every
limit on positions and inputs of every length:

| Theorem | Statement | Meaning |
|---|---|---|
| `CodecIsFaithful` | `InputSpec => []CodecFaithful` | the property of the run `QueryParts`, for the code's own widths too |
| `IntegerDecodes` | for every integer, wherever its bytes stand | `decode` returns what `encode` was given and ends behind its bytes |
| `IntegerCanonical` | for all bytes that `decode` accepts | they are the encoding of the integer returned, which is in range |
| `ListDecodes`, `ListCanonical` | the same for lists of differences | a list whose numbers do not rise is refused; what is accepted rises and is its own encoding |
| `PostingsAreDecoded`, `PostingsCanonical` | the same for the posting list of a term | documents and positions in order, no posting empty, no more positions than the limit |

Assumptions: `CodecAssumption` (a group is smaller than an integer), `PowerAssumption` (a
fact of arithmetic about powers of two, which the provers do not know and TLC evaluates), and
`ElementsAssumption` (IDs, frequencies and positions have the width of the integers, as
their types in the code do). The argument. After n groups an integer is what is
shifted out plus what is left times the place of the next group
(`SumsToValue`); nothing is left at the last byte. Conversely the groups read are
the digits of their sum (`ShiftedSums`), and a last group that is not zero makes
the digits those that `encode` writes (`OneEncoding`); the limit on the fifth byte
keeps the sum in range. Lists go by the least value at which the claim would
fail: it is about bytes at any place of an input (`At`), so that the bytes of a
list split into those of its beginning and of its last value (`AtBoth`). A
difference that wraps around is larger than what is left above the previous value
(`MinusIs`), which is why a list out of order is refused and never
read as another list.

`QueryCacheProofs` proves `CacheIsFaithful`, `Spec => []CacheFaithful`: for all keys,
sizes and limits, the byte count is that of the entries and within the limit, the map has
their keys, and the entries are a beginning of what a cache without a limit would
hold (`uses`). Assumption: `CacheAssumption`. The invariant `CacheInv` is this, with the
types. A hit moves the same entry to the front of both lists; a put erases a key
from both, adds one entry in front of both and cuts the end of one;
`invalidate_before` erases from both by the same condition. So the core is
that erasing the same entries keeps a beginning a beginning and splits its
byte count into what is left and what is gone (`ErasedHolds`); the order in which
`Picked` reads positions makes this a fact about one increasing list being the
beginning of another.

Only model-checked:

- liveness: the prover does not reason about fairness here;
- `Recoverable`, `AckedDurable`, `AckedKept` and `Restartable` beyond the hypotheses above:
  without them they are false, and a run shows it;
- what a query means, its plan and its explanation (`AnswersMeanQuery`, `ExplanationsAddUp`,
  `PlansCanonical`): `QueryPlanner` and `QuerySearch` are recursive over plans. Of
  `ClusterAnswersAsOracle` and `AnswersRanked` the parts that are about ranking
  and merging are proved (above); that the shards together find the
  candidates of the global index, with the same scores, is model-checked;
- the query language (`LexerFaithful`, `ParserFaithful`): `QueryParser` is recursive
  over its input, with operators that the prover cannot use.

`WriterInv`, `ViewInv`, `GroupInv`, `RecoveryInv`, `RpcInv`, `StoreInv`, `CacheInv`,
`CatchUpSucceeds`, `NoLostWakeup`, `MergeFaithful` and `OneSequencePerOperation` (which
`ImplementsLog` implies) are proved and not part of a run.

## 5. Not modelled

- The bytes of segments (other than posting lists), manifests and log records,
  their checksums and size limits: serialisation formats whose hazards are per
  byte, and which `fuzz/` covers. In `IndexWriter` a `durable_replace` happens or does not; the
  steps of one snapshot file under power loss are in `ReplicaRecovery`.
- The BM25 formula and the rounding of sums in floating point; keyword ranges,
  null AST children and non-finite boosts in the planner.
- Malformed RPC peers, the check for port zero in `connect_socket`, name resolution beyond
  its result.
- Analyzers (character classes and lower-casing; models take tokens as input),
  document files (a reader of JSON lines without state), counters, histograms
  and the logger, evaluation metrics (formulas over one list), the command-line
  programs (argument parsing and printing).

## 6. Findings

Each of these has a run whose property says what the quoted text says and which TLC finds
violated. What holds instead is checked by the passing runs.

1. **An acknowledged mutation can be lost** (`WriterOvertaken`). A put that waits
   for room in the queue (`index_writer.cpp:49`) does not look at
   `refreshing_` again when it resumes. It may resume while `refresh` (line 54) waits
   for the publisher: its record is logged and acknowledged, the mutation stays in
   the active index, and the refresh resets the log. A crash now loses it, against
   `docs/current-architecture.md:46`. Durability holds for all other mutations
   (`DurableUnlessOvertaken`, proved).
2. **The log can outgrow what replay accepts** (`WriterLogLimit`). `append` has no
   limit on records, `replay` has one, and only `refresh` empties the log.
3. **A log that goes on after a snapshot cannot be replayed** (`ReplicaLogContinued`).
   `PersistentMutationLog::replay` wants sequence 1 first (`replication.cpp:58,65`); a log that was
   reset after a snapshot begins above it, and what is appended then
   cannot be recovered, against `docs/replica_recovery.md:9`.
4. **A write can outlast its deadline** (`RpcBlockedWrite`): `transfer` (`shard_rpc.cpp:20`) hands all that
   is left to a blocking `write`. `docs/rpc_and_replication.md:4` says that every
   read and write is governed by the deadline. A worker in such a write is not joined either:
   `stop` waits for it (`tcp_transport.cpp:113`), where
   `docs/network_service.md:7` says that workers are joined cleanly. It waits for nothing else
   (`StopWaitsForHeld`), and everything but such a write and address resolution ends after the deadline
   (`DeadlineKept`).

In these places too the code and a document disagree. No property of a passing run claims the
documented behaviour, and none passes over a case of them as if it were right: the case is a
named exception, a named hypothesis, or not among the inputs.

- *The name of a new log can be lost.* `append` fsyncs the file and never its
  directory (`write_ahead_log.cpp:23,25`): after a power failure the log of a
  replica may be gone, with all that was acknowledged, against
  `docs/replica_recovery.md:9`. `AckedKept` and `Durable` have the hypothesis `LogCreated`.
- *The replica's log can outgrow what replay accepts*, as in finding 2, through
  `replication.cpp:49`: `recover_replica` fails on a log that was accepted record by
  record. `AckedKept` and `Restartable` have the hypothesis `Prudent`.
- *A repeated clause is kept.* `normalize_boolean` (`planner.cpp:284-289`) does not
  flatten, so `x OR y OR x` keeps `x` twice, and scores it twice;
  `docs/query_planning.md:14` says that equivalent clauses are removed. `PlansCanonical` claims
  only that the order of two operands does not matter and that a query beside itself is the
  query alone.
- *A reversed range is planned*: each bound is validated alone (`planner.cpp:246`).
  `docs/query_planning.md:13` says that it is rejected. The queries of `ClusterAnswers` have none.
- *`a NOT b` is refused*, since `begins_primary` (`parser.cpp:40`) has no NOT; in
  `docs/query_language.md:18-32` it is an implicit OR. `ParserFaithful` excepts it (`AdjacentNot`).
- *A phrase of form feeds is accepted*: the phrase check (`parser.cpp:135`) knows fewer kinds of
  white space than the lexer (`lexer.cpp:19`). `docs/query_language.md:55` calls whitespace-only
  phrases invalid. The lexemes that `ParserFaithful` is checked on have no such phrase.
- *Address resolution has no deadline*: `getaddrinfo` (`tcp_transport.cpp:34`) takes none;
  `docs/rpc_and_replication.md:24` calls it deadline-aware. `DeadlineKept` excepts it.

## 7. Plan

Done: the index writer (the most important behaviour: durability and
visibility) with its proofs, those of views and restarts included; replication
with its abstract log and its proofs; replica recovery with its proofs; the index
and its partition into shards with their proofs; ranking and the merge of shards
with their proofs; the posting codec with its proofs; planning and execution; the query
language; the cache with its proof; the TCP service and shard RPC with their proofs.

Left:

1. An abstract durable store that `IndexWriter` implements.
2. `ManifestStore` with temporary file, fsync, rename and directory fsync under power
   loss, refining the atomic publication that `IndexWriter` assumes.
3. The lexer as a recursive function over its text, as the codec's lists are, so that
   `LexerFaithful` can be proved.
