---------------------------- MODULE LocalShards ----------------------------
(***************************************************************************)
(* The documents of a cluster of shards in one process                     *)
(* (dse::distributed::LocalShardCluster with StableShardRouter): every     *)
(* document is in the global index, which is the oracle of the tests and   *)
(* gives the statistics, and in the shard that its ID routes to.           *)
(*                                                                         *)
(* put and erase hold the cluster's mutex alone: each call is one step.    *)
(* LocalCluster adds the searches, which change nothing here.              *)
(***************************************************************************)
EXTENDS InMemoryIndex

CONSTANTS
  ShardCount,
  Hash,        \* the hash of every document ID
  Requests,    \* the documents that clients put
  Erasures     \* the [id, version] that clients erase

\* LocalShardCluster::create refuses every other count.
ASSUME ShardAssumption == ShardCount \in 1..1024

\* Every ID has a hash; versions are unsigned; the analyzers make no empty
\* term.
ASSUME RequestAssumption ==
  /\ \A id \in DOMAIN Hash : Hash[id] \in Nat
  /\ \A doc \in Requests :
       /\ doc.id \in DOMAIN Hash /\ doc.version \in Nat /\ doc.deleted \in BOOLEAN
       /\ \A f \in DOMAIN doc.text : doc.text[f] \in Seq(STRING \ {""})
  /\ \A erasure \in Erasures : erasure.id \in DOMAIN Hash /\ erasure.version \in Nat

VARIABLES
  oracle,   \* global_
  shards    \* shards_

stored == <<oracle, shards>>

Route(id) == Hash[id] % ShardCount

----------------------------------------------------------------------------
\* A mutated form: the route is computed when the document was moved away.
PutMovedFrom(doc) ==
  /\ ~PutFails(oracle, doc)
  /\ oracle' = Updated(oracle, doc)
  /\ shards' = [shards EXCEPT ![Route("")] = AfterPut(@, doc)]

\* The shard is asked only after the global index has changed; when it
\* refuses, put returns an error and the two disagree.
PutDocument(doc) ==
  /\ ~PutFails(oracle, doc)
  /\ oracle' = Updated(oracle, doc)
  /\ shards' = [shards EXCEPT ![Route(doc.id)] = AfterPut(@, doc)]

EraseDocument(id, version) == PutDocument(Tombstone(id, version))

StoreInit ==
  /\ oracle = EmptyIndex
  /\ shards = [shard \in 0..(ShardCount - 1) |-> EmptyIndex]

StoreNext ==
  \/ \E doc \in Requests : PutDocument(doc)
  \/ \E erasure \in Erasures : EraseDocument(erasure.id, erasure.version)

\* What clients may do to the documents, whatever they search for.
StoreSpec == StoreInit /\ [][StoreNext]_stored

----------------------------------------------------------------------------
(* Properties *)

\* The incremental index, of the whole and of every shard, is the one built
\* from its live documents: the same terms, no posting of an earlier version
\* of a document (which validate_invariants would not notice while the
\* document is alive), lists in the order that the merges of the executor
\* rely on, statistics that add up, internal IDs within their limit, also
\* when the counter has wrapped around; and validate_invariants agrees.
IndexExact ==
  \A index \in {oracle} \cup Range(shards) :
    /\ Exact(index)
    /\ DOMAIN index.externalIds \subseteq 1..MaxInternalId
    /\ ValidateInvariants(index)

\* The shards are a partition of the oracle, tombstones included, whatever
\* was refused in between; and so no put that the oracle accepts fails half
\* way, also when the internal IDs run out.
ShardsPartition ==
  /\ \A shard \in DOMAIN shards :
       DOMAIN shards[shard].documents = {id \in DOMAIN oracle.documents : Route(id) = shard}
  /\ \A id \in DOMAIN oracle.documents :
       shards[Route(id)].documents[id].doc = oracle.documents[id].doc
  /\ \A doc \in Requests :
       ~PutFails(oracle, doc) => ~PutFails(shards[Route(doc.id)], doc)
=============================================================================
