------------------------------- MODULE Lists -------------------------------
(***************************************************************************)
(* Lists that the code sorts, or erases elements from.  Both are stated by *)
(* the order of the positions that the result is read from, a function     *)
(* that can be reasoned about.                                             *)
(***************************************************************************)
EXTENDS Integers, FiniteSets, Functions

\* The domain of key laid out with the values of key ascending: any such
\* order, where two have the same value.
Ascending(key) ==
  CHOOSE order \in [1..Cardinality(DOMAIN key) -> DOMAIN key] :
    /\ IsInjective(order)
    /\ \A i, j \in DOMAIN order : i < j => key[order[i]] <= key[order[j]]

\* The elements of a list at these positions, in the order of the list: what
\* is left when the others are erased.
Picked(list, positions) ==
  LET order == Ascending([p \in positions |-> p])
  IN [i \in DOMAIN order |-> list[order[i]]]

\* A list sorted by the key that each of its positions has.
Sorted(list, key) ==
  LET order == Ascending(key)
  IN [i \in DOMAIN order |-> list[order[i]]]

\* A map with the value of one key set.
With(map, k, value) ==
  [x \in DOMAIN map \cup {k} |-> IF x = k THEN value ELSE map[x]]
=============================================================================
