---------------------------- MODULE LocalCluster ----------------------------
(***************************************************************************)
(* The searches of a cluster of shards (LocalShardCluster::search) over    *)
(* the documents of LocalShards: a search runs on every shard and merges.  *)
(*                                                                         *)
(* put and erase hold the cluster's mutex alone, searches share it: each   *)
(* call is one step.  A client may also plan a query once on the oracle    *)
(* and execute or explain that plan after the index has changed: planned   *)
(* is the query and its plan, answer what a call is about to return.       *)
(***************************************************************************)
EXTENDS QuerySearch, LocalShards

CONSTANTS
  Queries,     \* the queries that clients plan and search for
  Capacities   \* the top_k that they ask for

VARIABLES planned, answer

vars == <<oracle, shards, planned, answer>>

NoAnswer == [of |-> "none"]

----------------------------------------------------------------------------
(* put and erase *)

Put(doc) ==
  /\ answer = NoAnswer
  /\ PutDocument(doc)
  /\ UNCHANGED <<planned, answer>>

\* put returns an error and has changed nothing.
Refuse(doc) ==
  /\ answer = NoAnswer
  /\ PutFails(oracle, doc)
  /\ UNCHANGED vars

Erase(id, version) ==
  /\ answer = NoAnswer
  /\ EraseDocument(id, version)
  /\ UNCHANGED <<planned, answer>>

----------------------------------------------------------------------------
(* search *)

\* A mutated form: a shard ranks with its own statistics.
ShardSearchViewLocal(shard) == ViewOf(shards[shard])

\* The shard's documents and postings, the statistics of the whole.
ShardSearchView(shard) == [local |-> shards[shard], global |-> oracle]

\* The answers of the shards in their order, the first error if there is one.
MergedAnswer(q, capacity) ==
  LET answers == [n \in 1..ShardCount |-> SearchQuery(ShardSearchView(n - 1), q, capacity)]
      lists == [n \in 1..ShardCount |-> answers[n].hits]
  IN IF \E n \in DOMAIN answers : answers[n].failed THEN FailedAnswer
     ELSE [failed |-> FALSE,
           hits |-> Results(Merged(lists, capacity)),
           total |-> FoldLeft(LAMBDA sum, a : sum + a.total, 0, answers)]

Search(q, capacity) ==
  /\ planned = <<>> /\ answer = NoAnswer
  /\ answer' = [of |-> "search", query |-> q, capacity |-> capacity,
                result |-> MergedAnswer(q, capacity)]
  /\ UNCHANGED <<oracle, shards, planned>>

----------------------------------------------------------------------------
(* Planned queries on the oracle *)

\* QueryPlanner::plan, successful or not.
Prepare(q) ==
  /\ planned = <<>> /\ answer = NoAnswer
  /\ planned' = IF PlanningFails(ViewOf(oracle), q) THEN <<>>
                ELSE <<[query |-> q, plan |-> PlanFor(ViewOf(oracle), q)]>>
  /\ UNCHANGED <<oracle, shards, answer>>

Execute(capacity) ==
  /\ planned # <<>> /\ answer = NoAnswer
  /\ answer' = [of |-> "plan", capacity |-> capacity,
                result |-> SearchPlan(ViewOf(oracle), planned[1].plan, capacity)]
  /\ UNCHANGED <<oracle, shards, planned>>

ExplainHit(id) ==
  /\ planned # <<>> /\ answer = NoAnswer
  /\ answer' = [of |-> "explain", id |-> id,
                result |-> ExplainDocument(ViewOf(oracle), planned[1].plan, id)]
  /\ UNCHANGED <<oracle, shards, planned>>

\* The call returns to its client.
Return ==
  /\ answer # NoAnswer
  /\ answer' = NoAnswer
  /\ UNCHANGED <<oracle, shards, planned>>

----------------------------------------------------------------------------
Init ==
  /\ StoreInit
  /\ planned = <<>>
  /\ answer = NoAnswer

Next ==
  \/ \E doc \in Requests : Put(doc) \/ Refuse(doc)
  \/ \E erasure \in Erasures : Erase(erasure.id, erasure.version)
  \/ \E q \in Queries : Prepare(q)
  \/ \E q \in Queries, capacity \in Capacities : Search(q, capacity)
  \/ \E capacity \in Capacities : Execute(capacity)
  \/ \E id \in DOMAIN Hash : ExplainHit(id)
  \/ Return

Spec == Init /\ [][Next]_vars

----------------------------------------------------------------------------
(* Properties *)

\* A cluster's answer is the one that the oracle gives: the same documents
\* with the same scores in the same order, the same total, and a query that
\* the one refuses the other refuses too.
ClusterAnswersAsOracle ==
  answer.of = "search" =>
    answer.result = SearchQuery(ViewOf(oracle), answer.query, answer.capacity)

\* Executing a plan never fails on an index that puts and erases have built;
\* the hits are documents that the query means, live ones, and total_hits
\* counts them all before truncation: also when the plan was made for an
\* earlier state of the index.
AnswersMeanQuery ==
  answer.of = "plan" =>
    LET meant == Matches(oracle, planned[1].query)
    IN /\ ~answer.result.failed
       /\ answer.result.total = Cardinality(meant)
       /\ \A h \in DOMAIN answer.result.hits : answer.result.hits[h].id \in meant

\* The hits are the best top_k of the matching documents in the public order,
\* with the scores that their texts give.
AnswersRanked ==
  answer.of = "plan" =>
    LET plan == planned[1].plan
        hits == answer.result.hits
        scored == {[id |-> id, score |-> ExpectedScore(oracle, plan, id)] :
                     id \in {d \in LiveIds(oracle) : PlanMatches(oracle, plan, d)}}
    IN /\ Len(hits) = AtMost(answer.capacity, Cardinality(scored))
       /\ ToSet(hits) \subseteq scored
       /\ \A g, h \in DOMAIN hits : g < h => Better(hits[g], hits[h])
       /\ \A s \in scored \ ToSet(hits) : \A h \in DOMAIN hits : Better(hits[h], s)

RECURSIVE AddsUp(_)
AddsUp(explanation) ==
  LET children == explanation.children
  IN /\ explanation.matched /\ explanation.kind \in {"and", "or", "phrase"} =>
          explanation.score = FoldLeft(LAMBDA sum, child : sum + child.score, 0, children)
     /\ \A i \in DOMAIN children : AddsUp(children[i])

\* explain gives the score that a search would, for a hit, a document that
\* does not match and a tombstone alike, and at every node that matched the
\* parts add up to the whole.
ExplanationsAddUp ==
  answer.of = "explain" =>
    IF Known(oracle, answer.id)
    THEN LET live == answer.id \in LiveIds(oracle)
         IN /\ ~answer.result.failed
            /\ answer.result.matched =
                 (live /\ PlanMatches(oracle, planned[1].plan, answer.id))
            /\ live => answer.result.score = ExpectedScore(oracle, planned[1].plan, answer.id)
            /\ AddsUp(answer.result)
    ELSE answer.result.failed

SamePlan(view, p, q) == Canonical(PlanFor(view, p)) = Canonical(PlanFor(view, q))

\* A plan's text, which can be part of a cache key, does not depend on the
\* order of the operands of AND and OR, at any depth, and a query beside
\* itself, in whichever order its operands stand, is the query alone,
\* whatever the index has come to hold.  (Stated between two calls: a search
\* changes nothing that planning reads.)
PlansCanonical ==
  planned # <<>> /\ answer = NoAnswer =>
    LET view == ViewOf(oracle)
        q == planned[1].query
    IN /\ ~PlanningFails(view, Swapped(q)) /\ SamePlan(view, Swapped(q), q)
       /\ \A kind \in {"and", "or"} :
            LET twice == [kind |-> kind, left |-> q, right |-> Swapped(q)]
            IN PlanningFails(view, twice) \/ SamePlan(view, twice, q)
=============================================================================
