----------------------------- MODULE MCShardRpc -----------------------------
(* A small instance of ShardRpc for TLC. *)
EXTENDS ShardRpc, TLC

Hit(i, s) == [id |-> i, score |-> s]
Ask(q, k) == [query |-> q, top_k |-> k]

\* A query with no hits, one whose two hits are too large for the client and one
\* hit is not, one too large for the server, three that do not parse, whose
\* errors fit, are too large for the client and for the server, a long one.
SomeHits ==
  (<<6, 5>> :> <<Hit(1, 2), Hit(2, 1)>>) @@ (<<13>> :> <<Hit(1, 3), Hit(2, 2), Hit(3, 1)>>)
SomeComplaints ==
  (<<40>> :> <<9, 9>>) @@ (<<41>> :> <<9, 9, 9, 9, 9>>) @@ (<<42>> :> <<9, 9, 9, 9, 9, 9, 9>>)
SomeInvalid == <<8, 8, 8, 8>>
\* The limits of the ends differ: the client's queries may be longer, the
\* server's frames.
SomeLimits == [e \in Ends |-> IF e = "client"
  THEN [frame |-> 7, query |-> 4, hits |-> 4] ELSE [frame |-> 9, query |-> 3, hits |-> 3]]
SomeRequests == {Ask(<<14>>, 2), Ask(<<6, 5>>, 2), Ask(<<6, 5>>, 1), Ask(<<13>>, 3),
                 Ask(<<13>>, 4), Ask(<<13>>, 5), Ask(<<40>>, 1), Ask(<<41>>, 1), Ask(<<42>>, 1),
                 Ask(<<3, 9, 14, 2>>, 1)}
OneRequest == {Ask(<<6, 5>>, 1)}
=============================================================================
