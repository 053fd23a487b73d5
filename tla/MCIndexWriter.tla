--------------------------- MODULE MCIndexWriter ---------------------------
(***************************************************************************)
(* Small instances of IndexWriter for TLC: the mutations that the clients  *)
(* of each configuration may submit.                                       *)
(***************************************************************************)
EXTENDS IndexWriter, TLC

Put(i, v) == [id |-> i, version |-> v, deleted |-> FALSE]
Erase(i, v) == [id |-> i, version |-> v, deleted |-> TRUE]

\* Two documents; the first is put and then erased.
RequestsAB == {Put("a", 1), Erase("a", 2), Put("b", 1)}

\* One document: put and erased; put, erased and put again.
RequestsTwo == {Put("a", 1), Erase("a", 2)}
RequestsA == RequestsTwo \cup {Put("a", 3)}

\* Enough versions to fill the active index and the queue and still have a
\* put waiting for capacity.
RequestsFive == {Put("a", v) : v \in 1..5}

\* Producers are interchangeable, and so are callers.
Symmetry == Permutations(Producers) \cup Permutations(Callers)
=============================================================================
