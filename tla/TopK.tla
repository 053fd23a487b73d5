-------------------------------- MODULE TopK --------------------------------
(***************************************************************************)
(* The best documents of a search (dse::ranking::TopKCollector): a heap of *)
(* at most capacity hits [id, score], that candidates are offered to one   *)
(* by one.  The executor offers what a plan matches, the cluster the hits  *)
(* of one shard after the other.                                           *)
(***************************************************************************)
EXTENDS Integers, Sequences, FiniteSets

CONSTANT Alphabet   \* the strings of the instance, in their order

ASSUME AlphabetAssumption == Alphabet \in Seq(STRING)

RankOf(string) == CHOOSE i \in DOMAIN Alphabet : Alphabet[i] = string

\* BetterScore: the higher score, and the smaller ID for equal scores.
Better(s, t) ==
  \/ s.score > t.score
  \/ s.score = t.score /\ RankOf(s.id) < RankOf(t.id)

Worst(heap) == CHOOSE s \in heap : \A t \in heap \ {s} : Better(t, s)

\* A mutated form: on equal scores the document that came first stays.
CollectScoreOnly(heap, candidate, capacity) ==
  IF capacity = 0 THEN heap
  ELSE IF Cardinality(heap) < capacity THEN heap \cup {candidate}
  ELSE IF candidate.score > Worst(heap).score THEN (heap \ {Worst(heap)}) \cup {candidate}
  ELSE heap

Collect(heap, candidate, capacity) ==
  IF capacity = 0 THEN heap
  ELSE IF Cardinality(heap) < capacity THEN heap \cup {candidate}
  ELSE IF Better(candidate, Worst(heap)) THEN (heap \ {Worst(heap)}) \cup {candidate}
  ELSE heap

\* The heap after a list of candidates.
Collected(heap, candidates, capacity) ==
  LET kept[n \in 0..Len(candidates)] ==
        IF n = 0 THEN heap ELSE Collect(kept[n - 1], candidates[n], capacity)
  IN kept[Len(candidates)]

\* The heap after several lists.
Merged(lists, capacity) ==
  LET kept[n \in 0..Len(lists)] ==
        IF n = 0 THEN {} ELSE Collected(kept[n - 1], lists[n], capacity)
  IN kept[Len(lists)]

\* results(): the best first.
Results(heap) ==
  CHOOSE hits \in [1..Cardinality(heap) -> heap] :
    \A i, j \in DOMAIN hits : i < j => Better(hits[i], hits[j])
=============================================================================
