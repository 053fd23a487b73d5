---------------------------- MODULE QueryCache ----------------------------
(***************************************************************************)
(* QueryResultCache (query/cache.cpp): search results kept under a key of  *)
(* generation and query, least recently used first to go, in at most       *)
(* MaximumBytes bytes.  Every operation holds the mutex from its first     *)
(* line to its last, so the threads that share a cache can be told apart   *)
(* only by the order of their calls, and one action stands for each call.  *)
(* A searcher that missed under an old generation may put its result       *)
(* after invalidate_before dropped that generation: Put takes any key at   *)
(* any time.                                                               *)
(*                                                                         *)
(* A key is a generation and a plan; the plan stands for everything else   *)
(* in QueryCacheKey (schema, plan, top_k, scoring).  Results are told      *)
(* apart and have a size; their hits are abstracted.                       *)
(***************************************************************************)
EXTENDS Integers, Sequences, FiniteSetsExt, Lists

CONSTANTS
    Generations,    \* the generations searched, a set of naturals
    Plans, Results,
    EntryBytes,     \* sizeof(Entry)
    PlanBytes,      \* bytes of a key's strings, by plan
    ResultBytes,    \* bytes of a result's hits, by result
    MaximumBytes,   \* the cache's limit
    MaxCount        \* bound on hits + misses and on evictions

ASSUME CacheAssumption ==
    /\ Generations \subseteq Nat
    /\ EntryBytes \in Nat \ {0} /\ MaximumBytes \in Nat /\ MaxCount \in Nat
    /\ PlanBytes \in [Plans -> Nat] /\ ResultBytes \in [Results -> Nat]

VARIABLES
    entries,     \* entries_, the most recently used first
    lookup,      \* lookup_: the keys that have a list position
    bytes,       \* bytes_
    counters,    \* hits_, misses_ and evictions_
    uses         \* history: what entries_ would be with no byte limit

vars == <<entries, lookup, bytes, counters, uses>>

QueryCacheKey == [generation : Generations, plan : Plans]
Entry == [key : QueryCacheKey, result : Results, bytes : Nat]

measure(key, result) == EntryBytes + PlanBytes[key.plan] + ResultBytes[result]

\* What is left of a list when the entries of a key, or the entries older
\* than a generation, are erased; what is in it under a key.
Without(list, key) == Picked(list, {p \in DOMAIN list : list[p].key # key})
NotBefore(list, g) == Picked(list, {p \in DOMAIN list : list[p].key.generation >= g})
Under(list, key) == Picked(list, {p \in DOMAIN list : list[p].key = key})
KeysOf(list) == {list[p].key : p \in DOMAIN list}
BytesOf(list) == SumFunction([p \in DOMAIN list |-> list[p].bytes])

---------------------------------------------------------------------------
Init ==
    /\ entries = <<>> /\ lookup = {} /\ bytes = 0 /\ uses = <<>>
    /\ counters = [hits |-> 0, misses |-> 0, evictions |-> 0]

Miss(key) ==
    /\ key \notin lookup
    /\ counters' = [counters EXCEPT !.misses = @ + 1]
    /\ UNCHANGED <<entries, lookup, bytes, uses>>

\* splice moves the entry to the front of the list.
Hit(key) ==
    /\ key \in lookup
    /\ counters' = [counters EXCEPT !.hits = @ + 1]
    /\ entries' = Under(entries, key) \o Without(entries, key)
    /\ uses' = Under(uses, key) \o Without(uses, key)
    /\ UNCHANGED <<lookup, bytes>>

Get(key) == counters.hits + counters.misses < MaxCount /\ (Miss(key) \/ Hit(key))

\* A mutated form: the bytes of a replaced entry are not given back.
ReleasedNothing(key) == 0

\* The bytes of the entry that a put replaces.
Released(key) == BytesOf(Under(entries, key))

\* How many entries of a list of that many bytes the loop at the end of put
\* leaves: it drops the last one while the total is above the limit.
Room(total, list) ==
    Max({0} \cup {n \in 1..Len(list) :
            total - BytesOf(SubSeq(list, n + 1, Len(list))) <= MaximumBytes})

Put(key, result) ==
    LET rest == Without(entries, key)
        bytesLeft == bytes - Released(key)
        entry == [key |-> key, result |-> result, bytes |-> measure(key, result)]
        all == <<entry>> \o rest
        kept == SubSeq(all, 1, Room(bytesLeft + entry.bytes, all))
        dropped == SubSeq(all, Len(kept) + 1, Len(all))
    IN IF entry.bytes > MaximumBytes
       THEN /\ entries' = rest /\ lookup' = lookup \ {key} /\ bytes' = bytesLeft
            /\ uses' = Without(uses, key)
            /\ UNCHANGED counters
       ELSE /\ entries' = kept
            /\ lookup' = (lookup \cup {key}) \ KeysOf(dropped)
            /\ bytes' = bytesLeft + entry.bytes - BytesOf(dropped)
            /\ counters' = [counters EXCEPT !.evictions = @ + Len(dropped)]
            /\ counters'.evictions <= MaxCount
            /\ uses' = <<entry>> \o Without(uses, key)

InvalidateBefore(g) ==
    /\ entries' = NotBefore(entries, g)
    /\ lookup' = {k \in lookup : k.generation >= g}
    /\ bytes' = bytes - (BytesOf(entries) - BytesOf(NotBefore(entries, g)))
    /\ uses' = NotBefore(uses, g)
    /\ UNCHANGED counters

Next ==
    \/ \E key \in QueryCacheKey : Get(key)
    \/ \E key \in QueryCacheKey, result \in Results : Put(key, result)
    \/ \E g \in Generations : InvalidateBefore(g)

Spec == Init /\ [][Next]_vars

---------------------------------------------------------------------------
(* Properties                                                              *)

\* After every sequence of calls (replacements, results too large to keep,
\* evictions, invalidations, late puts of an old generation) the byte count
\* is that of the list, within the limit, the map holds the keys of the
\* list, and the list is a beginning of what a cache without a limit would
\* hold: every hit is the last result put under exactly that key, and nothing
\* was given up while something that was used earlier stayed.
CacheFaithful ==
    /\ bytes = BytesOf(entries) /\ bytes <= MaximumBytes
    /\ lookup = KeysOf(entries)
    /\ entries = SubSeq(uses, 1, Len(entries))
    /\ \A i, j \in DOMAIN uses : uses[i].key = uses[j].key => i = j
===========================================================================
