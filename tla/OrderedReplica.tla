--------------------------- MODULE OrderedReplica ---------------------------
(***************************************************************************)
(* One replica of a shard (dse::distributed::OrderedReplica): what         *)
(* OrderedReplica::apply answers to a mutation record and what it changes. *)
(* The replica is a value; the modules that own replicas hold it in their  *)
(* state and serialise the calls.                                          *)
(*                                                                         *)
(*   record  [shard, epoch, op, sequence, doc]                             *)
(*   doc     [id, version, deleted, valid]: valid says whether the schema  *)
(*           accepts the document's fields; two documents are the same     *)
(*           when every field is the same (same_document)                  *)
(*   replica [shard, epoch, applied, health, documents, operations]: the   *)
(*           latest document of each ID (the index) and the records of the *)
(*           operations the replica remembers.  inflight_ is left out: it  *)
(*           is 0 in every replica a ReplicationGroup owns.                *)
(***************************************************************************)
EXTENDS Integers

Healths == {"healthy", "suspect", "unhealthy", "draining"}

EmptyReplica(shard, epoch) ==
  [shard |-> shard, epoch |-> epoch, applied |-> 0, health |-> "healthy",
   documents |-> {}, operations |-> {}]

\* InMemoryIndex::put refuses a version that is not newer, and a document
\* the schema rejects.
PutRefused(documents, doc) ==
  \/ \E known \in documents : known.id = doc.id /\ doc.version <= known.version
  \/ ~doc.valid

\* A mutated form: the version that was replaced stays visible.
WithDocumentKept(documents, doc) == documents \cup {doc}

WithDocument(documents, doc) ==
  {known \in documents : known.id # doc.id} \cup {doc}

Remembers(replica, op) == \E known \in replica.operations : known.op = op

\* The early returns of apply, in their order.
ApplyOutcome(replica, record) ==
  IF record.shard # replica.shard THEN "wrong_shard"
  ELSE IF record.epoch # replica.epoch THEN "wrong_epoch"
  ELSE IF record.op = "" THEN "conflicting_operation"
  ELSE IF record \in replica.operations THEN "duplicate"
  ELSE IF Remembers(replica, record.op) THEN "conflicting_operation"
  ELSE IF record.sequence <= replica.applied THEN "stale_sequence"
  ELSE IF record.sequence # replica.applied + 1 THEN "sequence_gap"
  ELSE IF PutRefused(replica.documents, record.doc) THEN "mutation_error"
  ELSE "applied"

\* apply returned a value, not an error: an acknowledgement.
Acknowledges(replica, record) ==
  ApplyOutcome(replica, record) \in {"applied", "duplicate"}

\* A mutated form: the operation is not remembered.
ApplyForgets(replica, record) ==
  IF ApplyOutcome(replica, record) = "applied"
  THEN [replica EXCEPT !.applied = record.sequence,
                       !.documents = WithDocument(@, record.doc)]
  ELSE replica

\* The replica after apply.
Apply(replica, record) ==
  IF ApplyOutcome(replica, record) = "applied"
  THEN [replica EXCEPT !.applied = record.sequence,
                       !.documents = WithDocument(@, record.doc),
                       !.operations = @ \cup {record}]
  ELSE replica
=============================================================================
