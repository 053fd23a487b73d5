----------------------------- MODULE Replication -----------------------------
(***************************************************************************)
(* A replication group (dse::distributed::ReplicationGroup): the primary's *)
(* retained log, the replicas, submission with either acknowledgement      *)
(* mode, health changes with catch-up, and the routing of reads.           *)
(*                                                                         *)
(* submit, statuses and set_health hold mutex_ from their first statement  *)
(* to their return.  submit applies one record to each replica, in an      *)
(* order that nobody can see, and is one step.  set_health may apply the   *)
(* whole retained log: the loop is modelled record by record, with the     *)
(* mutex held (Locked) in between.                                         *)
(***************************************************************************)
EXTENDS OrderedReplica, Sequences

CONSTANTS
  Nodes,       \* the group's node IDs; routing breaks ties by their order
  Primary,     \* replicas_.front()
  Shard, Epoch,
  Operations,  \* operation IDs that clients use; "" is the empty one
  Documents,   \* the documents that clients submit
  LogLimit,    \* maximum_retained_records
  Readers,     \* threads that call select_read_replica
  Lags,        \* the maximum_lag they ask for
  NoNode

ASSUME NodesAssumption == Nodes \subseteq Nat /\ Primary \in Nodes /\ NoNode \notin Nodes
ASSUME DocumentsAssumption ==
  \A doc \in Documents : doc.version \in Nat /\ doc.valid \in BOOLEAN
ASSUME LimitAssumption == LogLimit \in Nat \ {0} /\ Lags \subseteq Nat

VARIABLES
  log,           \* log_: the retained records
  nextSequence,  \* next_sequence_
  indices,       \* operation_indices_, as the set of its entries [op, at]
  replicas,      \* replicas_, by node ID
  replay,        \* set_health's loop: the node, the health to set, the
                 \* position of the next record; 0 when mutex_ is free
  receipts,      \* history: every MutationReceipt returned
  routes         \* history: what select_read_replica last told each reader,
                 \* and the sequence that it was to have applied by then

vars == <<log, nextSequence, indices, replicas, replay, receipts, routes>>

Modes == {"primary_only", "all_replicas"}

Free == [node |-> Primary, health |-> "healthy", next |-> 0]
Locked == replay.next # 0

----------------------------------------------------------------------------
(* submit *)

Committed(op) == \E entry \in indices : entry.op = op

\* A mutated form: a retry is answered with the newest record.
RecordOfNewest(op) == log[Len(log)]

RecordOf(op) == log[(CHOOSE entry \in indices : entry.op = op).at]

NewRecord(op, doc) ==
  [shard |-> Shard, epoch |-> Epoch, op |-> op,
   sequence |-> nextSequence, doc |-> doc]

\* A mutated form: the log is extended before the primary has validated.
AdmitsUnchecked(op, doc) == ~Committed(op) /\ Len(log) < LogLimit

\* A new operation is refused when the log is full or the primary cannot
\* apply it; nothing has changed then.
Admits(op, doc) ==
  /\ ~Committed(op)
  /\ Len(log) < LogLimit
  /\ Acknowledges(replicas[Primary], NewRecord(op, doc))

Serving(replica) == replica.health \in {"healthy", "suspect"}

Reached(n) == n = Primary \/ Serving(replicas[n])

Distribute(group, record) ==
  [n \in Nodes |-> IF Reached(n) THEN Apply(group[n], record) ELSE group[n]]

Acknowledging(group, record) ==
  {n \in Nodes : Reached(n) /\ Acknowledges(group[n], record)}

\* A mutated form: one acknowledgement missing is let pass.
SufficientWithoutOne(group, record, mode) ==
  mode = "all_replicas" =>
    \E n \in Nodes : Nodes \ {n} \subseteq Acknowledging(group, record)

Sufficient(group, record, mode) ==
  mode = "all_replicas" => Acknowledging(group, record) = Nodes

Receive(op, group, record, mode) ==
  receipts' = receipts \cup
    {r \in {[op |-> op, sequence |-> record.sequence, mode |-> mode]} :
       Sufficient(group, record, mode)}

SubmitNew(op, doc, mode) ==
  /\ ~Locked
  /\ Admits(op, doc)
  /\ LET record == NewRecord(op, doc)
         group == [replicas EXCEPT ![Primary] = Apply(@, record)]
     IN /\ log' = Append(log, record)
        /\ indices' = indices \cup {[op |-> op, at |-> Len(log) + 1]}
        /\ nextSequence' = nextSequence + 1
        /\ replicas' = Distribute(group, record)
        /\ Receive(op, group, record, mode)
  /\ UNCHANGED <<replay, routes>>

\* A retry is answered from the log when the document is the one logged.
SubmitRetry(op, doc, mode) ==
  /\ ~Locked
  /\ Committed(op)
  /\ RecordOf(op).doc = doc
  /\ replicas' = Distribute(replicas, RecordOf(op))
  /\ Receive(op, replicas, RecordOf(op), mode)
  /\ UNCHANGED <<log, nextSequence, indices, replay, routes>>

----------------------------------------------------------------------------
(* set_health *)

SetHealthDown(n, health) ==
  /\ ~Locked
  /\ replicas' = [replicas EXCEPT ![n].health = health]
  /\ UNCHANGED <<log, nextSequence, indices, replay, receipts, routes>>

\* A mutated form: the replica returns to service without catching up.
SetHealthNoReplay(n, health) == SetHealthDown(n, health)

SetHealthUp(n, health) ==
  /\ ~Locked
  /\ replay' = [node |-> n, health |-> health, next |-> 1]
  /\ UNCHANGED <<log, nextSequence, indices, replicas, receipts, routes>>

\* One record of the loop; the first error ends it and keeps the old health.
ReplayRecord ==
  /\ Locked
  /\ replay.next <= Len(log)
  /\ LET record == log[replay.next]
     IN /\ replicas' = [replicas EXCEPT ![replay.node] = Apply(@, record)]
        /\ replay' = IF Acknowledges(replicas[replay.node], record)
                     THEN [replay EXCEPT !.next = @ + 1]
                     ELSE Free
  /\ UNCHANGED <<log, nextSequence, indices, receipts, routes>>

ReplayDone ==
  /\ replay.next > Len(log)
  /\ replicas' = [replicas EXCEPT ![replay.node].health = replay.health]
  /\ replay' = Free
  /\ UNCHANGED <<log, nextSequence, indices, receipts, routes>>

----------------------------------------------------------------------------
(* statuses and select_read_replica *)

Lag(n) == LET ahead == replicas[Primary].applied - replicas[n].applied
          IN IF ahead > 0 THEN ahead ELSE 0

\* A mutated form: no candidate is skipped.
EligibleAny(n, lag) == n \in Nodes

Eligible(n, lag) == Serving(replicas[n]) /\ Lag(n) <= lag

\* NodeHealth's order.
Rank(n) == CASE replicas[n].health = "healthy" -> 0
             [] replicas[n].health = "suspect" -> 1
             [] replicas[n].health = "unhealthy" -> 2
             [] replicas[n].health = "draining" -> 3

\* Better health, then lower lag, then the smaller node ID.
Preferred(m, n) ==
  \/ Rank(m) < Rank(n)
  \/ Rank(m) = Rank(n) /\ Lag(m) < Lag(n)
  \/ Rank(m) = Rank(n) /\ Lag(m) = Lag(n) /\ m < n

\* The statuses are copied under mutex_ and the choice is made on the copy,
\* so that it can be placed at the copy; what the reader does with it comes
\* later.  Without an eligible replica the call fails.
SelectRead(reader, lag) ==
  /\ ~Locked
  /\ \E n \in Nodes :
       /\ Eligible(n, lag)
       /\ \A m \in Nodes \ {n} : Eligible(m, lag) => Preferred(n, m)
       /\ routes' = [routes EXCEPT ![reader] =
                       [node |-> n, floor |-> Len(log) - lag]]
  /\ UNCHANGED <<log, nextSequence, indices, replicas, replay, receipts>>

----------------------------------------------------------------------------
Init ==
  /\ log = <<>>
  /\ nextSequence = 1
  /\ indices = {}
  /\ replicas = [n \in Nodes |-> EmptyReplica(Shard, Epoch)]
  /\ replay = Free
  /\ receipts = {}
  /\ routes = [r \in Readers |-> [node |-> NoNode, floor |-> 0]]

Submit(op, doc, mode) == SubmitNew(op, doc, mode) \/ SubmitRetry(op, doc, mode)

SetHealth(n) == \/ \E health \in {"unhealthy", "draining"} : SetHealthDown(n, health)
                \/ \E health \in {"healthy", "suspect"} : SetHealthUp(n, health)

Next ==
  \/ \E op \in Operations, doc \in Documents, mode \in Modes : Submit(op, doc, mode)
  \/ \E n \in Nodes : SetHealth(n)
  \/ ReplayRecord
  \/ ReplayDone
  \/ \E reader \in Readers, lag \in Lags : SelectRead(reader, lag)

Spec == Init /\ [][Next]_vars

----------------------------------------------------------------------------
(* Properties *)

Records == [shard : {Shard}, epoch : {Epoch}, op : Operations,
            sequence : Nat, doc : Documents]

\* Types of the group's state.
TypeOK ==
  /\ log \in Seq(Records)
  /\ nextSequence \in Nat
  /\ indices \subseteq [op : Operations, at : Nat]
  /\ replicas \in [Nodes -> [shard : {Shard}, epoch : {Epoch}, applied : Nat,
                            health : Healths, documents : SUBSET Documents,
                            operations : SUBSET Records]]
  /\ replay \in [node : Nodes, health : Healths, next : Nat]
  /\ receipts \subseteq [op : Operations, sequence : Nat, mode : Modes]
  /\ routes \in [Readers -> [node : Nodes \cup {NoNode}, floor : Int]]

\* The log is contiguous from sequence 1, no operation is in it twice, and
\* operation_indices_ points each operation at its record.
LogIndexed ==
  /\ nextSequence = Len(log) + 1
  /\ Len(log) <= LogLimit
  /\ \A i \in 1..Len(log) : log[i].sequence = i /\ log[i].op # ""
  /\ \A i, j \in 1..Len(log) : log[i].op = log[j].op => i = j
  /\ indices = {[op |-> log[i].op, at |-> i] : i \in 1..Len(log)}

\* What can be replayed: every logged document passed the schema, and the
\* versions of one document increase along the log.
LogReplayable ==
  \A i \in 1..Len(log) :
    /\ log[i].doc.valid
    /\ \A j \in 1..(i - 1) : log[j].doc.id = log[i].doc.id
                               => log[j].doc.version < log[i].doc.version

\* A replica has applied exactly a prefix of the log: it remembers those
\* records and no other.
AppliesPrefix ==
  \A n \in Nodes :
    /\ replicas[n].applied <= Len(log)
    /\ replicas[n].operations = {log[i] : i \in 1..replicas[n].applied}

\* The documents that a prefix of the log leaves: the last of each ID.
LatestOf(count) ==
  {log[i].doc : i \in {i \in 1..count :
                         \A j \in 1..count : log[j].doc.id = log[i].doc.id => j <= i}}

\* Replicas at the same sequence hold the same index: the one that the
\* prefix determines, whatever was retried, skipped or replayed on the way.
Converged == \A n \in Nodes : replicas[n].documents = LatestOf(replicas[n].applied)

\* The primary, and every replica in service (healthy or suspect), has
\* applied the whole log: a replica that was skipped has caught up before
\* set_health returned it to service.
ServingCaughtUp ==
  \A n \in Nodes :
    n = Primary \/ Serving(replicas[n]) => replicas[n].applied = Len(log)

\* The loop of set_health never fails: it finds each record already applied,
\* or next in sequence and acceptable.
CatchUpSucceeds ==
  replay.next \in 1..Len(log) =>
    Acknowledges(replicas[replay.node], log[replay.next])

\* A receipt for all replicas holds for good: its mutation stays applied on
\* every node, also on one that has failed and recovered since.
AllReplicasHold ==
  \A receipt \in receipts : receipt.mode = "all_replicas" =>
    \A n \in Nodes : \E record \in replicas[n].operations :
      record.op = receipt.op /\ record.sequence = receipt.sequence

\* Retries never give an operation a second sequence, and no two operations
\* share one.
OneSequencePerOperation ==
  \A r, s \in receipts : r.op = s.op <=> r.sequence = s.sequence

\* Once every replica is back in service, resubmitting any logged operation
\* for all replicas succeeds.
RetrySucceeds ==
  (\A n \in Nodes : Serving(replicas[n])) =>
    \A i \in 1..Len(log) : Sufficient(replicas, log[i], "all_replicas")

\* The replica a reader was sent to has applied all but the permitted lag of
\* what was committed when it was chosen, and still has when it is used.
ReadsFresh ==
  \A r \in Readers : routes[r].node # NoNode =>
    replicas[routes[r].node].applied >= routes[r].floor

\* The loop of set_health: the records behind it are applied.
ReplayOK ==
  Locked => /\ Serving([health |-> replay.health])
            /\ replay.next <= Len(log) + 1
            /\ replicas[replay.node].applied >= replay.next - 1

\* What a receipt says of the log, and of the replicas.
ReceiptsOK ==
  \A receipt \in receipts :
    /\ receipt.sequence \in 1..Len(log)
    /\ log[receipt.sequence].op = receipt.op
    /\ receipt.mode = "all_replicas" =>
         \A n \in Nodes : replicas[n].applied >= receipt.sequence

\* The inductive invariant: the log can be replayed on any replica, each
\* replica is the image of a prefix of it, the serving ones of all of it.
GroupInv ==
  /\ TypeOK
  /\ LogIndexed
  /\ LogReplayable
  /\ AppliesPrefix
  /\ Converged
  /\ ServingCaughtUp
  /\ ReplayOK
  /\ ReceiptsOK
  /\ ReadsFresh

\* The group implements the replicated log.
Abstract ==
  INSTANCE ReplicatedLog WITH
    ops <- [i \in 1..Len(log) |-> log[i].op],
    applied <- [n \in Nodes |-> replicas[n].applied],
    granted <- receipts

\* Every step of the group is a step of the replicated log or a stutter.
ImplementsLog == Abstract!Spec
=============================================================================
