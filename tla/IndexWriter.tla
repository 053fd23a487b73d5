---------------------------- MODULE IndexWriter ----------------------------
(***************************************************************************)
(* The durable index writer of dse::storage: IndexWriter with the          *)
(* write-ahead log, the segment files, the manifest store and the search   *)
(* views it drives.                                                        *)
(*                                                                         *)
(* Threads: Producers call put/erase, Callers call refresh, merge_all and  *)
(* the destructor, Readers call open_search_view, and Worker is the        *)
(* background publisher (worker_loop).  A critical section of mutex_ is    *)
(* one step, except where the code does I/O under the lock (the log        *)
(* append, the log reset, opening a view): there the lock is held across   *)
(* steps, so that a crash or an unlocked thread may come in between.       *)
(* A wait on condition_ puts the thread into `asleep'; only a notify_all   *)
(* takes it out again, and it then re-evaluates its predicate.             *)
(***************************************************************************)
EXTENDS Integers, Sequences, FiniteSets

CONSTANTS
  Ids,           \* external document IDs
  Versions,      \* document versions (uint64)
  Requests,      \* the mutations clients may submit
  Producers,     \* threads that call put/erase
  Callers,       \* threads that call refresh, merge_all or destroy the writer
  Readers,       \* threads that call open_search_view
  Worker,        \* the background publisher thread
  NoThread,      \* "the lock is free"
  MaxBuffered,   \* maximum_buffered_mutations
  MaxFrozen,     \* maximum_frozen_indexes
  AutoMerge,     \* automatic_merge_segment_count, 0 turns it off
  MergeWidth,    \* merge_width
  Reclaim,       \* reclaim_obsolete_files
  WalLimit,      \* WalLimits::maximum_records
  Operations,    \* the operations Callers use: refresh, merge_all, close
  FaultPoints,   \* the I/O operations that may fail
  MaxFaults,     \* bound: failed I/O operations in a behaviour
  MaxSegmentId   \* bound: segment IDs given to merges (each failed merge uses one)

\* A document mutation: put with deleted = FALSE, a tombstone with TRUE.
Mutation == [id : Ids, version : Versions, deleted : BOOLEAN]

\* Stands for the document of a producer that has none.
AnyRequest == CHOOSE m \in Requests : TRUE

Threads == Producers \cup Callers \cup Readers \cup {Worker}

AllFaultPoints == {"append", "reset", "segment", "manifest", "current", "remove"}

AllOperations == {"refresh", "merge_all", "close"}

\* IndexWriter::open refuses every other combination of limits.
ASSUME LimitsAssumption ==
  /\ MaxBuffered \in Nat \ {0}
  /\ MaxFrozen \in Nat \ {0}
  /\ MergeWidth \in Nat \ {0, 1}
  /\ AutoMerge \in Nat \ {1}
  /\ Reclaim \in BOOLEAN
  /\ WalLimit \in Nat
  /\ MaxFaults \in Nat /\ MaxSegmentId \in Nat
  /\ FaultPoints \subseteq AllFaultPoints
  /\ Operations \subseteq AllOperations

ASSUME RequestsAssumption ==
  /\ Versions \subseteq Nat /\ IsFiniteSet(Versions)
  /\ Requests \subseteq Mutation /\ Requests # {}

ASSUME ThreadsAssumption ==
  /\ Producers \cap Callers = {}
  /\ (Producers \cup Callers) \cap Readers = {}
  /\ Worker \notin Producers \cup Callers \cup Readers
  /\ NoThread \notin Threads

VARIABLES
  \* the index directory
  wal,        \* complete records of WRITE-AHEAD.log, in file order
  torn,       \* "no", "tail" (partial last record) or "buried" (a record follows it)
  segs,       \* segment files: records [id, docs]
  manifests,  \* MANIFEST-N files: records [generation, segments]
  current,    \* the generation CURRENT names, 0 when there is no CURRENT
  \* the IndexWriter object
  up,         \* is the process running with the writer open?
  versions, active, buffered, frozen, manifest, nextSeg,
  busy, refreshing, stopping, error,
  \* its threads
  pc, asleep, mutex,
  req,        \* a producer's document
  op,         \* a caller's operation
  snapshot,   \* the frozen index the worker is publishing
  job,        \* the publication in progress: who holds publication_mutex_ and why
  view,       \* what a reader has read of the generation it opens
  \* history variables
  acked,      \* mutations whose put returned success
  begun,      \* a caller's value of acked when its refresh took effect
  promised,   \* mutations a successful refresh promised to be searchable
  overtaken,  \* mutations accepted while a refresh waited for the worker
  faults      \* I/O failures so far

disk    == <<wal, torn, segs, manifests, current>>
buffer  == <<versions, active, buffered, frozen>>
flags   == <<busy, refreshing, stopping, error>>
threads == <<pc, asleep, mutex, req, op, view>>
worker  == <<snapshot, job, manifest, nextSeg>>
history == <<acked, begun, promised, overtaken, faults>>
vars    == <<disk, up, buffer, flags, threads, worker, history>>

-----------------------------------------------------------------------------
(* Indexes, segments and generations                                       *)

\* The indexes and segments are the sets of the mutations they hold, at most
\* one for each document; put replaces the document's older version.
PutDocument(index, m) == {n \in index : n.id # m.id} \cup {m}

\* S has a mutation of the same document that is at least as new as m.
CoveredBy(m, S) == \E n \in S : n.id = m.id /\ n.version >= m.version

AllCovered(M, S) == \A m \in M : CoveredBy(m, S)

\* A mutated form: tombstones do not survive a merge or a view.
LatestLive(S) == {m \in S : /\ ~m.deleted
                           /\ \A n \in S : n.id = m.id => n.version <= m.version}

\* The "winners" of GenerationView::open and SegmentMerger::merge_segments:
\* the newest version of every document, tombstones included.
Latest(S) == {m \in S : \A n \in S : n.id = m.id => n.version <= m.version}

NoManifest == [generation |-> 0, segments |-> {}]

NoJob == [stage |-> "free", owner |-> Worker, merge |-> FALSE, id |-> 0,
          docs |-> {}, next |-> NoManifest, obsolete |-> NoManifest]

FileIds == {f.id : f \in segs}

SegmentDocs(ids) == UNION {f.docs : f \in {g \in segs : g.id \in ids}}

\* The segments the manifest file of this generation lists.
ManifestSegments(generation) ==
  UNION {x.segments : x \in {y \in manifests : y.generation = generation}}

Published == SegmentDocs(ManifestSegments(current))

\* load_current and open_current succeed (or there is nothing to load yet).
CurrentOpens ==
  current # 0 => /\ \E x \in manifests : x.generation = current
                 /\ ManifestSegments(current) \subseteq FileIds

\* "conflicting equal document versions": the views and merges refuse these.
Conflict(S) ==
  \E m, n \in S : m.id = n.id /\ m.version = n.version /\ m.deleted # n.deleted

NoView == [generation |-> 0, segments |-> {}, docs |-> {}]

\* Writing a file under a name replaces the file that had the name.
WithSegment(f) == {g \in segs : g.id # f.id} \cup {f}
WithManifest(x) == {y \in manifests : y.generation # x.generation} \cup {x}

\* std::sort of the candidates by ID: the place of a segment in a list.
Position(s, list) == Cardinality({x \in list : x <= s})

-----------------------------------------------------------------------------
(* Lock and condition variable                                             *)

Closing == \E t \in Callers : op[t] = "close" /\ pc[t] # "idle"

\* mutex_ is free and t may take it: t is not blocked in condition_.wait.
Runs(t) == up /\ mutex = NoThread /\ t \notin asleep

\* condition_.wait with a false predicate, at the wait named `at'.
SleepAt(t, at) == /\ pc' = [pc EXCEPT ![t] = at]
                  /\ asleep' = asleep \cup {t}

HasCapacity == Len(frozen) < MaxFrozen

\* A mutated form: a failure is returned to the caller but not remembered.
ErrorForgotten(failed) == error

\* worker_error_ is never cleared.
StickyError(failed) == error \/ failed

\* freeze_active_locked, which does nothing when nothing is buffered.
FreezeActive ==
  /\ frozen' = IF buffered = 0 THEN frozen ELSE Append(frozen, active)
  /\ buffered' = 0

ActiveAfterFreeze == IF buffered = 0 THEN active ELSE {}

\* A mutated form: the freeze does not notify.
AsleepAfterSilentFreeze == asleep

AsleepAfterFreeze == IF buffered = 0 THEN asleep ELSE {}

-----------------------------------------------------------------------------
(* put and erase                                                           *)

\* versions_ has a version of the document that is not older.
Stale(m) == CoveredBy(m, versions)

\* The writer already holds an unfinished record when another one follows it.
TornAppend == IF torn = "no" THEN "tail" ELSE "buried"

\* put returns to its client.
PutReturns(p) == /\ pc' = [pc EXCEPT ![p] = "idle"]
                 /\ req' = [req EXCEPT ![p] = AnyRequest]

\* put after its admission waits: the version check, active_->put and the
\* start of the log append, for which the lock stays held.
PutProceed(p, m, base) ==
  \/ /\ Stale(m)
     /\ active' = base
     /\ PutReturns(p)
     /\ UNCHANGED <<torn, mutex>>
  \/ /\ ~Stale(m)
     /\ active' = PutDocument(base, m)
     /\ torn' = TornAppend
     /\ mutex' = p
     /\ pc' = [pc EXCEPT ![p] = "append"]
     /\ req' = [req EXCEPT ![p] = m]

\* put from its first wait on: the writer is not refreshing, has not failed,
\* and a full active index is frozen when the queue has room.
PutEnter(p, m) ==
  /\ \/ /\ error
        /\ PutReturns(p)
        /\ UNCHANGED <<active, buffered, frozen, torn, mutex, asleep>>
     \/ /\ refreshing /\ ~error
        /\ SleepAt(p, "put_enter")
        /\ req' = [req EXCEPT ![p] = m]
        /\ UNCHANGED <<active, buffered, frozen, torn, mutex>>
     \/ /\ ~refreshing /\ ~error
        /\ buffered < MaxBuffered
        /\ PutProceed(p, m, active)
        /\ UNCHANGED <<buffered, frozen, asleep>>
     \/ /\ ~refreshing /\ ~error
        /\ buffered >= MaxBuffered /\ HasCapacity
        /\ FreezeActive
        /\ asleep' = AsleepAfterFreeze
        /\ PutProceed(p, m, ActiveAfterFreeze)
     \/ /\ ~refreshing /\ ~error
        /\ buffered >= MaxBuffered /\ ~HasCapacity
        /\ SleepAt(p, "put_capacity")
        /\ req' = [req EXCEPT ![p] = m]
        /\ UNCHANGED <<active, buffered, frozen, torn, mutex>>
  /\ UNCHANGED <<wal, segs, manifests, current, up, versions, flags, op, view,
                 worker, history>>

PutCall(p, m) ==
  /\ pc[p] = "idle" /\ Runs(p) /\ ~Closing
  /\ PutEnter(p, m)

PutReenter(p) ==
  /\ pc[p] = "put_enter" /\ Runs(p)
  /\ PutEnter(p, req[p])

\* wait_for_capacity_locked returns in the first half of put.  The code does
\* not look at refreshing_ again.
PutAdmitted(p) ==
  /\ pc[p] = "put_capacity" /\ Runs(p)
  /\ \/ /\ error
        /\ PutReturns(p)
        /\ UNCHANGED <<active, buffered, frozen, torn, mutex, asleep, overtaken>>
     \/ /\ ~error /\ ~HasCapacity
        /\ SleepAt(p, "put_capacity")
        /\ UNCHANGED <<active, buffered, frozen, torn, mutex, req, overtaken>>
     \/ /\ ~error /\ HasCapacity
        /\ FreezeActive
        /\ asleep' = AsleepAfterFreeze
        /\ PutProceed(p, req[p], ActiveAfterFreeze)
        /\ overtaken' = IF /\ ~Stale(req[p])
                            /\ \E c \in Callers : pc[c] = "refresh_idle"
                         THEN overtaken \cup {req[p]} ELSE overtaken
  /\ UNCHANGED <<wal, segs, manifests, current, up, versions, flags, op,
                 view, worker, acked, begun, promised, faults>>

\* The record is written and fsynced: the mutation counts, and an active
\* index that is now full is frozen, if need be after a wait for room.
PutLogged(p) ==
  /\ pc[p] = "append" /\ mutex = p
  /\ wal' = Append(wal, req[p])
  /\ torn' = IF torn = "tail" THEN "no" ELSE torn
  /\ versions' = PutDocument(versions, req[p])
  /\ mutex' = NoThread
  /\ \/ /\ buffered + 1 < MaxBuffered
        /\ buffered' = buffered + 1
        /\ acked' = acked \cup {req[p]}
        /\ PutReturns(p)
        /\ UNCHANGED <<active, frozen, asleep>>
     \/ /\ buffered + 1 >= MaxBuffered /\ HasCapacity
        /\ frozen' = Append(frozen, active)
        /\ active' = {}
        /\ buffered' = 0
        /\ asleep' = {}
        /\ acked' = acked \cup {req[p]}
        /\ PutReturns(p)
     \/ /\ buffered + 1 >= MaxBuffered /\ ~HasCapacity
        /\ buffered' = buffered + 1
        /\ SleepAt(p, "put_full")
        /\ UNCHANGED <<active, frozen, req, acked>>
  /\ UNCHANGED <<segs, manifests, current, up, flags, op, view, worker,
                 begun, promised, overtaken, faults>>

\* WriteAheadLog::append fails: nothing, a part or all of the record may be
\* in the file, and the error sticks.
PutLogFails(p) ==
  /\ pc[p] = "append" /\ mutex = p
  /\ "append" \in FaultPoints /\ faults < MaxFaults
  /\ faults' = faults + 1
  /\ \/ wal' = wal /\ torn' \in (IF torn = "tail" THEN {"no", "tail"} ELSE {torn})
     \/ wal' = Append(wal, req[p]) /\ torn' = IF torn = "tail" THEN "no" ELSE torn
  /\ error' = StickyError(TRUE)
  /\ asleep' = {}
  /\ mutex' = NoThread
  /\ PutReturns(p)
  /\ UNCHANGED <<segs, manifests, current, up, buffer, busy, refreshing,
                 stopping, op, view, worker, acked, begun, promised,
                 overtaken>>

\* wait_for_capacity_locked at the end of put, after the mutation counts.
PutFull(p) ==
  /\ pc[p] = "put_full" /\ Runs(p)
  /\ \/ /\ error
        /\ PutReturns(p)
        /\ UNCHANGED <<active, buffered, frozen, asleep, acked>>
     \/ /\ ~error /\ ~HasCapacity
        /\ SleepAt(p, "put_full")
        /\ UNCHANGED <<active, buffered, frozen, req, acked>>
     \/ /\ ~error /\ HasCapacity
        /\ FreezeActive
        /\ active' = ActiveAfterFreeze
        /\ asleep' = AsleepAfterFreeze
        /\ acked' = acked \cup {req[p]}
        /\ PutReturns(p)
  /\ UNCHANGED <<disk, up, versions, flags, mutex, op, view, worker,
                 begun, promised, overtaken, faults>>

-----------------------------------------------------------------------------
(* refresh, merge_all and the destructor                                   *)

\* Where a caller goes when its refresh returns.
AfterRefresh(c, ok) ==
  CASE op[c] = "close" -> "close_stop"
    [] op[c] = "merge_all" /\ ok -> "merge_loop"
    [] OTHER -> "idle"

\* A mutated form: the end of a refresh does not notify.
FinishSilently == refreshing' = FALSE /\ begun' = {} /\ UNCHANGED asleep

\* The `finish' lambda.
FinishRefresh == refreshing' = FALSE /\ begun' = {} /\ asleep' = {}

\* refresh returns the error.
RefreshFails(c) ==
  /\ FinishRefresh
  /\ pc' = [pc EXCEPT ![c] = AfterRefresh(c, FALSE)]

\* A mutated form: the predicate forgets the index the worker is publishing.
AwaitEmptyQueue(c, queue, sleepers) ==
  \/ /\ queue = <<>>
     /\ pc' = [pc EXCEPT ![c] = "reset"] /\ mutex' = c /\ asleep' = sleepers
  \/ /\ queue # <<>>
     /\ pc' = [pc EXCEPT ![c] = "refresh_idle"] /\ asleep' = sleepers \cup {c}
     /\ UNCHANGED mutex

\* A mutated form: the predicate forgets the queue.
AwaitWorker(c, queue, sleepers) ==
  \/ /\ ~busy
     /\ pc' = [pc EXCEPT ![c] = "reset"] /\ mutex' = c /\ asleep' = sleepers
  \/ /\ busy
     /\ pc' = [pc EXCEPT ![c] = "refresh_idle"] /\ asleep' = sleepers \cup {c}
     /\ UNCHANGED mutex

\* wait_until_idle_locked: either the worker is idle and the log reset starts,
\* with the lock held, or the caller sleeps.
AwaitIdle(c, queue, sleepers) ==
  \/ /\ queue = <<>> /\ ~busy
     /\ pc' = [pc EXCEPT ![c] = "reset"]
     /\ mutex' = c
     /\ asleep' = sleepers
  \/ /\ queue # <<>> \/ busy
     /\ pc' = [pc EXCEPT ![c] = "refresh_idle"]
     /\ asleep' = sleepers \cup {c}
     /\ UNCHANGED mutex

\* refresh once no other refresh is in progress.
RefreshEnter(c, o) ==
  /\ \/ /\ error
        /\ pc' = [pc EXCEPT ![c] = IF o = "close" THEN "close_stop" ELSE "idle"]
        /\ UNCHANGED <<active, buffered, frozen, mutex, asleep, refreshing, begun>>
     \/ /\ refreshing /\ ~error
        /\ SleepAt(c, "refresh_enter")
        /\ UNCHANGED <<active, buffered, frozen, mutex, refreshing, begun>>
     \/ /\ ~refreshing /\ ~error
        /\ refreshing' = TRUE
        /\ begun' = acked
        /\ \/ /\ buffered = 0
              /\ AwaitIdle(c, frozen, asleep)
              /\ UNCHANGED <<active, buffered, frozen>>
           \/ /\ buffered # 0 /\ HasCapacity
              /\ FreezeActive
              /\ active' = {}
              /\ AwaitIdle(c, frozen', {})
           \/ /\ buffered # 0 /\ ~HasCapacity
              /\ SleepAt(c, "refresh_capacity")
              /\ UNCHANGED <<active, buffered, frozen, mutex>>
  /\ UNCHANGED <<disk, up, versions, busy, stopping, error, req, view, worker,
                 acked, promised, overtaken, faults>>

\* The client may destroy the writer only when nobody else uses it.
RefreshCall(c, o) ==
  /\ pc[c] = "idle" /\ Runs(c) /\ ~Closing
  /\ o = "close" => \A t \in Threads \ {c, Worker} : pc[t] = "idle"
  /\ op' = [op EXCEPT ![c] = o]
  /\ RefreshEnter(c, o)

RefreshReenter(c) ==
  /\ pc[c] = "refresh_enter" /\ Runs(c)
  /\ RefreshEnter(c, op[c])
  /\ UNCHANGED op

RefreshCapacity(c) ==
  /\ pc[c] = "refresh_capacity" /\ Runs(c)
  /\ \/ /\ error
        /\ RefreshFails(c)
        /\ UNCHANGED <<active, buffered, frozen, mutex>>
     \/ /\ ~error /\ ~HasCapacity
        /\ SleepAt(c, "refresh_capacity")
        /\ UNCHANGED <<active, buffered, frozen, mutex, refreshing, begun>>
     \/ /\ ~error /\ HasCapacity
        /\ FreezeActive
        /\ active' = ActiveAfterFreeze
        /\ AwaitIdle(c, frozen', AsleepAfterFreeze)
        /\ UNCHANGED <<refreshing, begun>>
  /\ UNCHANGED <<disk, up, versions, busy, stopping, error, req, op, view,
                 worker, acked, promised, overtaken, faults>>

RefreshIdle(c) ==
  /\ pc[c] = "refresh_idle" /\ Runs(c)
  /\ \/ /\ error
        /\ RefreshFails(c)
        /\ UNCHANGED mutex
     \/ /\ ~error
        /\ AwaitIdle(c, frozen, asleep)
        /\ UNCHANGED <<refreshing, begun>>
  /\ UNCHANGED <<disk, up, buffer, busy, stopping, error, req, op, view,
                 worker, acked, promised, overtaken, faults>>

\* WriteAheadLog::reset truncates and fsyncs the log, and refresh returns.
RefreshReset(c) ==
  /\ pc[c] = "reset" /\ mutex = c
  /\ wal' = <<>>
  /\ torn' = "no"
  /\ FinishRefresh
  /\ mutex' = NoThread
  /\ promised' = promised \cup begun
  /\ pc' = [pc EXCEPT ![c] = AfterRefresh(c, TRUE)]
  /\ UNCHANGED <<segs, manifests, current, up, buffer, busy, stopping, error,
                 req, op, view, worker, acked, overtaken, faults>>

\* WriteAheadLog::reset fails before or after the truncation.
RefreshResetFails(c) ==
  /\ pc[c] = "reset" /\ mutex = c
  /\ "reset" \in FaultPoints /\ faults < MaxFaults
  /\ faults' = faults + 1
  /\ \/ wal' = wal /\ torn' = torn
     \/ wal' = <<>> /\ torn' = "no"
  /\ error' = StickyError(TRUE)
  /\ RefreshFails(c)
  /\ mutex' = NoThread
  /\ UNCHANGED <<segs, manifests, current, up, buffer, busy, stopping, req, op,
                 view, worker, acked, promised, overtaken>>

\* ~IndexWriter after its refresh: stop the worker and join it.
CloseStop(c) ==
  /\ pc[c] = "close_stop" /\ Runs(c)
  /\ stopping' = TRUE
  /\ asleep' = {}
  /\ pc' = [pc EXCEPT ![c] = "close_join"]
  /\ UNCHANGED <<disk, up, buffer, busy, refreshing, error, mutex, req, op,
                 view, worker, history>>

-----------------------------------------------------------------------------
(* The worker                                                              *)

\* worker_loop takes the oldest frozen index, or leaves when told to stop.
WorkerTake ==
  /\ pc[Worker] = "wait" /\ Runs(Worker)
  /\ \/ /\ frozen # <<>>
        /\ snapshot' = Head(frozen)
        /\ frozen' = Tail(frozen)
        /\ busy' = TRUE
        /\ asleep' = {}
        /\ pc' = [pc EXCEPT ![Worker] = "flush"]
     \/ /\ frozen = <<>> /\ stopping
        /\ pc' = [pc EXCEPT ![Worker] = "exited"]
        /\ UNCHANGED <<snapshot, frozen, busy, asleep>>
     \/ /\ frozen = <<>> /\ ~stopping
        /\ SleepAt(Worker, "wait")
        /\ UNCHANGED <<snapshot, frozen, busy>>
  /\ UNCHANGED <<disk, up, versions, active, buffered, refreshing, stopping,
                 error, mutex, req, op, view, job, manifest, nextSeg, history>>

\* The segments of the generation a flush publishes.
FlushedSegments == manifest.segments \cup {nextSeg}

\* publish_snapshot takes publication_mutex_ and picks the segment's ID and
\* the next generation.
WorkerFlush ==
  /\ pc[Worker] = "flush" /\ Runs(Worker)
  /\ job.stage = "free"
  /\ job' = [NoJob EXCEPT !.stage = "segment", !.id = nextSeg, !.docs = snapshot,
               !.next = [generation |-> manifest.generation + 1,
                         segments |-> FlushedSegments]]
  /\ nextSeg' = nextSeg + 1
  /\ pc' = [pc EXCEPT ![Worker] = "publishing"]
  /\ UNCHANGED <<disk, up, buffer, flags, asleep, mutex, req, op, view,
                 snapshot, manifest, history>>

\* A mutated form: the worker goes idle without a notify.
WorkerDoneSilently ==
  /\ pc[Worker] \in {"done", "failed"} /\ Runs(Worker)
  /\ busy' = FALSE
  /\ error' = StickyError(pc[Worker] = "failed")
  /\ pc' = [pc EXCEPT ![Worker] = IF @ = "failed" THEN "exited" ELSE "wait"]
  /\ snapshot' = {}
  /\ UNCHANGED <<disk, up, buffer, refreshing, stopping, asleep, mutex, req, op,
                 view, job, manifest, nextSeg, history>>

\* The end of worker_loop's body: the worker is idle again, or it has failed
\* for good.
WorkerDone ==
  /\ pc[Worker] \in {"done", "failed"} /\ Runs(Worker)
  /\ busy' = FALSE
  /\ error' = StickyError(pc[Worker] = "failed")
  /\ asleep' = {}
  /\ pc' = [pc EXCEPT ![Worker] = IF @ = "failed" THEN "exited" ELSE "wait"]
  /\ snapshot' = {}
  /\ UNCHANGED <<disk, up, buffer, refreshing, stopping, mutex, req, op, view,
                 job, manifest, nextSeg, history>>

-----------------------------------------------------------------------------
(* Publication: the steps of publish_snapshot and compact_published under  *)
(* publication_mutex_                                                      *)

\* compact_published returns to the worker loop or to merge_all.
CompactReturn(t, ok) ==
  CASE t = Worker -> IF ok THEN "done" ELSE "failed"
    [] OTHER -> IF ok THEN "merge_loop" ELSE "idle"

JobEnds(ok) ==
  /\ job' = NoJob
  /\ pc' = [pc EXCEPT ![job.owner] = CompactReturn(job.owner, ok)]

\* The segments of CURRENT at the places the chosen ones have in manifest_.
Opened(chosen) ==
  LET places == {Position(s, manifest.segments) : s \in chosen}
  IN  {s \in ManifestSegments(current) :
         Position(s, ManifestSegments(current)) \in places}

\* The smallest segments first; file sizes are abstracted to any choice.
Selections ==
  {S \in SUBSET manifest.segments :
     Cardinality(S) = IF MergeWidth < Cardinality(manifest.segments)
                      THEN MergeWidth ELSE Cardinality(manifest.segments)}

\* The segments of the generation a merge publishes.
CompactedSegments(chosen) == (manifest.segments \ chosen) \cup {nextSeg}

\* compact_published up to the write of the merged segment.
Compact(t) ==
  /\ pc[t] = (IF t = Worker THEN "merge" ELSE "merge_loop") /\ Runs(t)
  /\ job.stage = "free"
  /\ Cardinality(manifest.segments) > 1
  /\ CurrentOpens /\ nextSeg <= MaxSegmentId
  /\ \E chosen \in Selections :
       /\ Cardinality(Opened(chosen)) = Cardinality(chosen)
       /\ ~Conflict(SegmentDocs(Opened(chosen)))
       /\ job' = [stage |-> "segment", owner |-> t, merge |-> TRUE,
                  id |-> nextSeg, docs |-> Latest(SegmentDocs(Opened(chosen))),
                  next |-> [generation |-> manifest.generation + 1,
                            segments |-> CompactedSegments(chosen)],
                  obsolete |-> manifest]
  /\ nextSeg' = nextSeg + 1
  /\ pc' = [pc EXCEPT ![t] = "publishing"]
  /\ UNCHANGED <<disk, up, buffer, flags, asleep, mutex, req, op, view,
                 snapshot, manifest, history>>

\* There is at most one segment left: compact_published and merge_all return.
CompactNothing(t) ==
  /\ pc[t] = (IF t = Worker THEN "merge" ELSE "merge_loop") /\ Runs(t)
  /\ Cardinality(manifest.segments) <= 1
  /\ t = Worker => job.stage = "free"
  /\ pc' = [pc EXCEPT ![t] = IF t = Worker THEN "done" ELSE "idle"]
  /\ UNCHANGED <<disk, up, buffer, flags, asleep, mutex, req, op, view,
                 worker, history>>

\* SegmentWriter::write: temporary file, fsync, verification, rename.
JobSegment ==
  /\ up /\ job.stage = "segment"
  /\ segs' = WithSegment([id |-> job.id, docs |-> job.docs])
  /\ job' = [job EXCEPT !.stage = "manifest"]
  /\ UNCHANGED <<wal, torn, manifests, current, up, buffer, flags, threads,
                 snapshot, manifest, nextSeg, history>>

\* ManifestStore::publish checks the generation and opens every segment.
Publishable(x) ==
  /\ CurrentOpens
  /\ x.generation > current
  /\ x.segments \subseteq FileIds

\* ManifestStore::publish writes MANIFEST-N.
JobManifest ==
  /\ up /\ job.stage = "manifest" /\ Publishable(job.next)
  /\ manifests' = WithManifest(job.next)
  /\ job' = [job EXCEPT !.stage = "current"]
  /\ UNCHANGED <<wal, torn, segs, current, up, buffer, flags, threads,
                 snapshot, manifest, nextSeg, history>>

JobRefused ==
  /\ up /\ job.stage = "manifest" /\ ~Publishable(job.next)
  /\ JobEnds(FALSE)
  /\ UNCHANGED <<disk, up, buffer, flags, asleep, mutex, req, op, view,
                 snapshot, manifest, nextSeg, history>>

\* ManifestStore::publish replaces CURRENT.
JobCurrent ==
  /\ up /\ job.stage = "current"
  /\ current' = job.next.generation
  /\ job' = [job EXCEPT !.stage = "install"]
  /\ UNCHANGED <<wal, torn, segs, manifests, up, buffer, flags, threads,
                 snapshot, manifest, nextSeg, history>>

\* A write, an fsync or a rename fails.  When it is the fsync of the
\* directory that fails, the renamed file is there all the same.
JobFault ==
  /\ up /\ job.stage \in FaultPoints \cap {"segment", "manifest", "current"}
  /\ job.stage = "manifest" => Publishable(job.next)
  /\ faults < MaxFaults
  /\ faults' = faults + 1
  /\ \/ UNCHANGED <<segs, manifests, current>>
     \/ /\ job.stage = "segment"
        /\ segs' = WithSegment([id |-> job.id, docs |-> job.docs])
        /\ UNCHANGED <<manifests, current>>
     \/ /\ job.stage = "manifest"
        /\ manifests' = WithManifest(job.next)
        /\ UNCHANGED <<segs, current>>
     \/ /\ job.stage = "current"
        /\ current' = job.next.generation
        /\ UNCHANGED <<segs, manifests>>
  /\ JobEnds(FALSE)
  /\ UNCHANGED <<wal, torn, up, buffer, flags, asleep, mutex, req, op, view,
                 snapshot, manifest, nextSeg, acked, begun, promised, overtaken>>

\* A mutated form: manifest_ is replaced without the lock.
NoInstallLock == TRUE

\* The lock under which manifest_ is replaced.
InstallLock == mutex = NoThread

\* A mutated form: only merges replace manifest_.
MergeInstalled == IF job.merge THEN job.next ELSE manifest

InstalledManifest == job.next

\* manifest_ = next, under the lock.  A flush is then complete, unless enough
\* segments have gathered for the worker to merge some.
JobInstall ==
  /\ up /\ job.stage = "install" /\ InstallLock
  /\ manifest' = InstalledManifest
  /\ \/ /\ job.merge
        /\ job' = [job EXCEPT !.stage = "reclaim"]
        /\ UNCHANGED pc
     \/ /\ ~job.merge
        /\ AutoMerge # 0 /\ Cardinality(job.next.segments) >= AutoMerge
        /\ job' = NoJob
        /\ pc' = [pc EXCEPT ![Worker] = "merge"]
     \/ /\ ~job.merge
        /\ AutoMerge = 0 \/ Cardinality(job.next.segments) < AutoMerge
        /\ JobEnds(TRUE)
  /\ UNCHANGED <<disk, up, buffer, flags, asleep, mutex, req, op, view,
                 snapshot, nextSeg, history>>

\* The files reclaim removes: those of the obsolete generation that the
\* replacement does not list.
Obsolete == {f \in segs : f.id \in job.obsolete.segments \ job.next.segments}

\* reclaim removes a file.
JobReclaim ==
  /\ up /\ job.stage = "reclaim" /\ Reclaim
  /\ \E f \in Obsolete : segs' = segs \ {f}
  /\ UNCHANGED <<wal, torn, manifests, current, up, buffer, flags, threads,
                 worker, history>>

\* reclaim ends with the manifest of the obsolete generation.  Errors of
\* remove are ignored: the file stays until the next open.
JobReclaimed ==
  /\ up /\ job.stage = "reclaim"
  /\ (Reclaim /\ "remove" \notin FaultPoints) => Obsolete = {}
  /\ \/ /\ Reclaim
        /\ manifests' = {x \in manifests : x.generation # job.obsolete.generation}
     \/ /\ ~Reclaim \/ "remove" \in FaultPoints
        /\ UNCHANGED manifests
  /\ JobEnds(TRUE)
  /\ UNCHANGED <<wal, torn, segs, current, up, buffer, flags, asleep, mutex,
                 req, op, view, snapshot, manifest, nextSeg, history>>

-----------------------------------------------------------------------------
(* open_search_view                                                        *)

\* Reads CURRENT; the lock is held until the view is complete.  With a sticky
\* error, or before the first generation, the call fails without a trace.
ViewBegin(r) ==
  /\ pc[r] = "idle" /\ Runs(r) /\ ~Closing
  /\ ~error /\ current # 0
  /\ mutex' = r
  /\ view' = [view EXCEPT ![r] = [NoView EXCEPT !.generation = current]]
  /\ pc' = [pc EXCEPT ![r] = "view_manifest"]
  /\ UNCHANGED <<disk, up, buffer, flags, asleep, req, op, worker, history>>

\* load_current reads the manifest CURRENT named.
ViewManifest(r) ==
  /\ pc[r] = "view_manifest" /\ mutex = r
  /\ view' = [view EXCEPT ![r].segments = ManifestSegments(view[r].generation)]
  /\ pc' = [pc EXCEPT ![r] =
              IF \E x \in manifests : x.generation = view[r].generation
              THEN "view_segments" ELSE "view_failed"]
  /\ UNCHANGED <<disk, up, buffer, flags, asleep, mutex, req, op, worker, history>>

\* open_current opens the segments and GenerationView::open resolves them.
ViewSegments(r) ==
  /\ pc[r] = "view_segments" /\ mutex = r
  /\ view' = [view EXCEPT ![r].docs = Latest(SegmentDocs(view[r].segments))]
  /\ pc' = [pc EXCEPT ![r] =
              IF /\ view[r].segments \subseteq FileIds
                 /\ ~Conflict(SegmentDocs(view[r].segments))
              THEN "view_open" ELSE "view_failed"]
  /\ UNCHANGED <<disk, up, buffer, flags, asleep, mutex, req, op, worker, history>>

\* open_search_view returns the view, or the error, and drops the lock.
ViewEnd(r) ==
  /\ pc[r] \in {"view_open", "view_failed"} /\ mutex = r
  /\ mutex' = NoThread
  /\ view' = [view EXCEPT ![r] = NoView]
  /\ pc' = [pc EXCEPT ![r] = "idle"]
  /\ UNCHANGED <<disk, up, buffer, flags, asleep, req, op, worker, history>>

-----------------------------------------------------------------------------
(* Process death and open                                                  *)

\* Nothing that lives in memory survives.
Halt ==
  /\ up' = FALSE
  /\ versions' = {} /\ active' = {} /\ buffered' = 0 /\ frozen' = <<>>
  /\ manifest' = NoManifest /\ nextSeg' = 1 /\ snapshot' = {} /\ job' = NoJob
  /\ busy' = FALSE /\ refreshing' = FALSE /\ stopping' = FALSE /\ error' = FALSE
  /\ pc' = [t \in Threads |-> IF t = Worker THEN "wait" ELSE "idle"]
  /\ asleep' = {} /\ mutex' = NoThread
  /\ req' = [p \in Producers |-> AnyRequest]
  /\ op' = [c \in Callers |-> "refresh"]
  /\ view' = [r \in Readers |-> NoView]
  /\ begun' = {}
  /\ UNCHANGED <<segs, manifests, current, acked, promised, overtaken, faults>>

\* The process dies.  An append in progress may have written nothing, a part
\* or all of its record; a reset may or may not have truncated the log.
Crash ==
  /\ up
  /\ \/ UNCHANGED <<wal, torn>>
     \/ \E p \in Producers :
          /\ pc[p] = "append" /\ torn = "tail"
          /\ torn' = "no"
          /\ wal' \in {wal, Append(wal, req[p])}
     \/ \E c \in Callers :
          /\ pc[c] = "reset"
          /\ wal' = <<>> /\ torn' = "no"
  /\ Halt

\* compact_published indexes the opened segments by the places they have in
\* manifest_.  When CURRENT is ahead of manifest_ a place may be out of range:
\* undefined behaviour, taken to end the process.
CompactOverrun(t) ==
  /\ pc[t] = (IF t = Worker THEN "merge" ELSE "merge_loop") /\ Runs(t)
  /\ job.stage = "free"
  /\ Cardinality(manifest.segments) > 1
  /\ \E chosen \in Selections : Cardinality(Opened(chosen)) < Cardinality(chosen)
  /\ UNCHANGED <<wal, torn>>
  /\ Halt

\* The worker has been joined and the destructor returns.
CloseJoin(c) ==
  /\ up /\ pc[c] = "close_join"
  /\ pc[Worker] = "exited"
  /\ UNCHANGED <<wal, torn>>
  /\ Halt

\* A mutated form: only documents that were never published are replayed.
ReplayedUnpublished ==
  {i \in 1..Len(wal) : \A n \in Published : n.id # wal[i].id}

\* The records of the log that replay puts into the active index: newer than
\* the published version and than every earlier record of the document.
Replayed ==
  {i \in 1..Len(wal) :
     /\ ~CoveredBy(wal[i], Published)
     /\ \A j \in 1..(i - 1) : wal[j].id = wal[i].id => wal[j].version < wal[i].version}

\* The greatest of a set of segment IDs, plus one; 1 when there are none.
NextId(ids) == IF ids = {} THEN 1
               ELSE 1 + CHOOSE x \in ids : \A y \in ids : y <= x

\* The segments cleanup_startup_files retains.
Retained == ManifestSegments(current)

\* IndexWriter::open succeeds: CURRENT and its segments are readable and the
\* log replays.  A partial record at its end is truncated.
Openable == CurrentOpens /\ torn # "buried" /\ Len(wal) <= WalLimit

Open ==
  /\ ~up /\ Openable
  /\ up' = TRUE
  /\ manifest' = [generation |-> current, segments |-> ManifestSegments(current)]
  /\ nextSeg' = NextId(ManifestSegments(current))
  /\ segs' = IF Reclaim THEN {f \in segs : f.id \in Retained}
                        ELSE segs
  /\ manifests' = IF Reclaim THEN {x \in manifests : x.generation = current}
                             ELSE manifests
  /\ torn' = "no"
  /\ active' = Latest({wal[i] : i \in Replayed})
  /\ versions' = Latest(Published \cup {wal[i] : i \in Replayed})
  /\ buffered' = Cardinality(Replayed)
  /\ UNCHANGED <<wal, current, frozen, flags, threads, snapshot, job, history>>

-----------------------------------------------------------------------------
(* The specification                                                       *)

Init ==
  /\ wal = <<>> /\ torn = "no" /\ segs = {} /\ manifests = {} /\ current = 0
  /\ up = FALSE
  /\ versions = {} /\ active = {} /\ buffered = 0 /\ frozen = <<>>
  /\ manifest = NoManifest /\ nextSeg = 1 /\ snapshot = {} /\ job = NoJob
  /\ busy = FALSE /\ refreshing = FALSE /\ stopping = FALSE /\ error = FALSE
  /\ pc = [t \in Threads |-> IF t = Worker THEN "wait" ELSE "idle"]
  /\ asleep = {} /\ mutex = NoThread
  /\ req = [p \in Producers |-> AnyRequest]
  /\ op = [c \in Callers |-> "refresh"]
  /\ view = [r \in Readers |-> NoView]
  /\ acked = {} /\ begun = {} /\ promised = {} /\ overtaken = {} /\ faults = 0

\* The steps of a put that has begun.
PutStep(p) == PutReenter(p) \/ PutAdmitted(p) \/ PutLogged(p) \/ PutFull(p)

\* The steps of a refresh, merge_all or destructor that has begun.
CallerStep(c) ==
  \/ RefreshReenter(c) \/ RefreshCapacity(c) \/ RefreshIdle(c) \/ RefreshReset(c)
  \/ CloseStop(c) \/ CloseJoin(c) \/ Compact(c) \/ CompactNothing(c)
  \/ CompactOverrun(c)

\* The steps of a publication, whoever runs it.
JobStep == \/ JobSegment \/ JobManifest \/ JobRefused \/ JobCurrent
           \/ JobInstall \/ JobReclaim \/ JobReclaimed

WorkerStep == \/ WorkerTake \/ WorkerFlush \/ WorkerDone
              \/ Compact(Worker) \/ CompactNothing(Worker) \/ CompactOverrun(Worker)

ReaderStep(r) == ViewManifest(r) \/ ViewSegments(r) \/ ViewEnd(r)

Next ==
  \/ \E p \in Producers :
       PutStep(p) \/ PutLogFails(p) \/ \E m \in Requests : PutCall(p, m)
  \/ \E c \in Callers :
       \/ CallerStep(c) \/ RefreshResetFails(c)
       \/ \E o \in Operations : RefreshCall(c, o)
  \/ \E r \in Readers : ReaderStep(r) \/ ViewBegin(r)
  \/ WorkerStep \/ JobStep \/ JobFault
  \/ Crash \/ Open

Spec == Init /\ [][Next]_vars

\* Threads that are neither waiting nor blocked make progress, and so does the
\* operating system with their I/O.  Clients need not call, the process need
\* not die and nobody need open the directory again.
Fairness ==
  /\ \A p \in Producers : WF_vars(PutStep(p))
  /\ \A c \in Callers : WF_vars(CallerStep(c))
  /\ \A r \in Readers : WF_vars(ReaderStep(r))
  /\ WF_vars(WorkerStep)
  /\ WF_vars(JobStep)

FairSpec == Spec /\ Fairness

-----------------------------------------------------------------------------
(* Properties                                                              *)

DiskType ==
  /\ wal \in Seq(Mutation)
  /\ torn \in {"no", "tail", "buried"}
  /\ segs \subseteq [id : Nat, docs : SUBSET Mutation]
  /\ manifests \subseteq [generation : Nat, segments : SUBSET Nat]
  /\ current \in Nat

BufferType ==
  /\ versions \subseteq Mutation /\ active \subseteq Mutation
  /\ buffered \in Nat
  /\ frozen \in Seq((SUBSET Mutation) \ {{}})

FlagType ==
  /\ up \in BOOLEAN /\ busy \in BOOLEAN /\ refreshing \in BOOLEAN
  /\ stopping \in BOOLEAN /\ error \in BOOLEAN

ProducerStates == {"idle", "put_enter", "put_capacity", "append", "put_full"}
CallerStates == {"idle", "refresh_enter", "refresh_capacity", "refresh_idle",
                 "reset", "merge_loop", "publishing", "close_stop", "close_join"}
ReaderStates == {"idle", "view_manifest", "view_segments", "view_open", "view_failed"}
WorkerStates == {"wait", "flush", "publishing", "merge", "done", "failed", "exited"}

ThreadType ==
  /\ pc \in [Threads -> ProducerStates \cup CallerStates \cup ReaderStates
                          \cup WorkerStates]
  /\ asleep \subseteq Threads
  /\ mutex \in Threads \cup {NoThread}
  /\ req \in [Producers -> Mutation]
  /\ op \in [Callers -> AllOperations]
  /\ view \in [Readers -> [generation : Nat, segments : SUBSET Nat,
                           docs : SUBSET Mutation]]

Stages == {"free", "segment", "manifest", "current", "install", "reclaim"}

Generation == [generation : Nat, segments : SUBSET Nat]

WorkerType ==
  /\ snapshot \subseteq Mutation
  /\ manifest \in Generation
  /\ nextSeg \in Nat
  /\ job \in [stage : Stages, owner : Callers \cup {Worker}, merge : BOOLEAN,
              id : Nat, docs : SUBSET Mutation, next : Generation,
              obsolete : Generation]

HistoryType ==
  /\ acked \subseteq Mutation /\ begun \subseteq Mutation
  /\ promised \subseteq Mutation /\ overtaken \subseteq Mutation
  /\ faults \in Nat

\* The types of the variables; an index is never frozen empty.
TypeOK == /\ DiskType /\ BufferType /\ FlagType /\ ThreadType /\ WorkerType
          /\ HistoryType

\* The mutations a restart would bring back.
Recovered == Published \cup {wal[i] : i \in 1..Len(wal)}

\* docs/write_ahead_log.md: a mutation that put acknowledged survives a crash
\* at any point.
AckedDurable == AllCovered(acked, Recovered)

\* The same, except for mutations accepted by a put that was waiting for
\* capacity and resumed in the middle of a refresh (index_writer.cpp:49).
DurableUnlessOvertaken == AllCovered(acked \ overtaken, Recovered)

\* A successful refresh publishes everything acknowledged before it started,
\* overtaken mutations aside, and no later flush, merge or restart takes it back.
RefreshedVisible == AllCovered(promised \ overtaken, Published)

\* A view that opens shows what every earlier refresh promised.
ViewShowsRefreshed ==
  \A r \in Readers :
    pc[r] = "view_open" => AllCovered(promised \ overtaken, view[r].docs)

\* A view never meets a file that compaction has reclaimed: reclaim runs only
\* after manifest_ was replaced under the lock the view holds.
NoFailedView == \A r \in Readers : pc[r] # "view_failed"

\* The index directory can be opened again after a crash at any point.
Recoverable == Openable

\* The writer's manifest is the published one whenever nobody is publishing
\* and no publication has failed.
ManifestMatchesDisk ==
  (up /\ job.stage = "free" /\ faults = 0) =>
    /\ manifest.generation = current
    /\ manifest.segments = ManifestSegments(current)

\* What is published only grows newer: no step makes an older version of a
\* document, or none, visible again, and the generation never decreases.
PublishedMonotone == [][/\ AllCovered(Published, Published')
                        /\ current' >= current]_vars

\* Every refresh, merge_all and destructor returns: a notify_all follows each
\* change that its waits are about, on the error paths too.  Provided the
\* other callers come to rest: they too may keep one at its first wait.
EveryRefreshReturns ==
  \A c \in Callers :
    <>[](\A d \in Callers \ {c} : pc[d] = "idle") => (pc[c] # "idle" ~> pc[c] = "idle")

\* Every put returns, provided the refreshes come to an end: a client that
\* refreshes without pause may keep a put at its first wait for ever.
EveryPutReturns ==
  <>[](\A c \in Callers : pc[c] = "idle") =>
    \A p \in Producers : pc[p] # "idle" ~> pc[p] = "idle"

\* The worker publishes what is frozen without a refresh asking for it, unless
\* it has failed or the process died.
FrozenDrains == frozen # <<>> ~> (frozen = <<>> \/ error)

-----------------------------------------------------------------------------
(* The inductive invariant behind DurableUnlessOvertaken, RefreshedVisible *)
(* and PublishedMonotone                                                   *)

LogRecords == {wal[i] : i \in 1..Len(wal)}

Queued == UNION {frozen[i] : i \in 1..Len(frozen)}

\* Where a refresh waits or works with refreshing_ set.
InRefresh(c) == pc[c] \in {"refresh_capacity", "refresh_idle", "reset"}

\* A refresh has frozen what was buffered and waits for the worker.
PastFreeze(c) == pc[c] \in {"refresh_idle", "reset"}

\* A closed writer has no state.
DownOK ==
  ~up => /\ active = {} /\ frozen = <<>> /\ snapshot = {} /\ buffered = 0
         /\ ~busy /\ ~refreshing /\ ~error /\ mutex = NoThread
         /\ job.stage = "free" /\ pc[Worker] = "wait"
         /\ \A t \in Threads \ {Worker} : pc[t] = "idle"

\* Who holds the lock, and what cannot change meanwhile.
LockOK ==
  /\ \A p \in Producers :
       pc[p] = "append" => mutex = p /\ ~error /\ ~Stale(req[p]) /\ req[p] \in active
  /\ \A c \in Callers :
       pc[c] = "reset" => mutex = c /\ ~error /\ ~busy /\ frozen = <<>>
  /\ \A c \in Callers : InRefresh(c) => refreshing
  /\ \A c, d \in Callers : InRefresh(c) /\ InRefresh(d) => c = d

\* The generation CURRENT names stays readable; manifest_ is that generation
\* or an older one; segment IDs in use are not given out again.
GenerationOK ==
  /\ CurrentOpens
  /\ IsFiniteSet(ManifestSegments(current))
  /\ up => /\ manifest.generation <= current
           /\ manifest.generation = current =>
                manifest.segments = ManifestSegments(current)
           /\ IsFiniteSet(manifest.segments)
           /\ \A s \in manifest.segments \cup ManifestSegments(current) : s < nextSeg

\* What holds of a publication at each of its stages.  Before CURRENT is
\* replaced, the new generation covers the one it is to replace, provided
\* manifest_ is up to date; if it is not, the publication will be refused.
JobOK ==
  job.stage # "free" =>
    /\ pc[job.owner] = "publishing"
    /\ ~job.merge => job.owner = Worker /\ job.docs = snapshot
    /\ IsFiniteSet(job.next.segments)
    /\ job.id \in job.next.segments
    /\ \A s \in job.next.segments : s < nextSeg
    /\ job.stage # "reclaim" =>
         /\ job.next.generation = manifest.generation + 1
         /\ job.merge => job.obsolete.generation = manifest.generation
    /\ job.stage = "segment" =>
         job.id \notin manifest.segments \cup ManifestSegments(current)
    /\ (job.stage \in {"segment", "manifest", "current"} /\ manifest.generation = current) =>
         AllCovered(Published, SegmentDocs(job.next.segments \ {job.id}) \cup job.docs)
    /\ job.stage \in {"manifest", "current"} => job.docs \subseteq SegmentDocs({job.id})
    /\ job.stage = "current" =>
         /\ manifest.generation = current
         /\ \E x \in manifests : x.generation = job.next.generation
         /\ ManifestSegments(job.next.generation) = job.next.segments
         /\ job.next.segments \subseteq FileIds
    /\ job.stage \in {"install", "reclaim"} =>
         /\ current = job.next.generation
         /\ ManifestSegments(current) = job.next.segments
    /\ job.stage = "reclaim" => /\ job.merge
                                /\ manifest = job.next
                                /\ job.obsolete.generation < current

\* The worker is past the point where its flush replaced CURRENT.
Flushed == \/ pc[Worker] \in {"merge", "done"}
           \/ /\ job.stage # "free" /\ job.owner = Worker
              /\ job.merge \/ job.stage = "install"

\* The worker holds an index only while it is busy, and the index is published
\* from then on.
FlushOK == /\ ~busy => snapshot = {}
           /\ pc[Worker] \in {"wait", "exited"} => ~busy
           /\ Flushed => AllCovered(snapshot, Published)

\* The active index and its count; versions_ covers the log and all of the
\* active index but a document that is just being logged.
ActiveOK ==
  /\ buffered # 0 => active # {}
  /\ (~error /\ buffered = 0 /\ \A p \in Producers : pc[p] # "append") => active = {}
  /\ (up /\ ~error) =>
       /\ AllCovered(LogRecords, versions)
       /\ \A m \in active : \/ CoveredBy(m, versions)
                            \/ \E p \in Producers : pc[p] = "append" /\ req[p] = m

\* Until the next refresh every record of the log is published or in memory,
\* and once a refresh has frozen the active index only overtaken ones can
\* still be active.
LogOK ==
  (up /\ ~error) =>
    /\ AllCovered(LogRecords, Published \cup active \cup Queued \cup snapshot)
    /\ (\E c \in Callers : PastFreeze(c)) =>
         /\ active \subseteq overtaken
         /\ AllCovered(LogRecords \ overtaken, Published \cup Queued \cup snapshot)
         /\ \A p \in Producers : pc[p] = "append" => req[p] \in overtaken

\* The mutations whose put has logged them: acknowledged, or about to be.
Accepted == acked \cup {req[p] : p \in {q \in Producers : pc[q] = "put_full"}}

\* Accepted mutations are published or in the log, overtaken ones aside.
AcceptedOK ==
  /\ AllCovered(Accepted \ overtaken, Published \cup (LogRecords \ overtaken))
  /\ begun \subseteq acked
  /\ RefreshedVisible

WriterInv == /\ DownOK /\ LockOK /\ GenerationOK /\ JobOK /\ FlushOK
             /\ ActiveOK /\ LogOK /\ AcceptedOK
=============================================================================
