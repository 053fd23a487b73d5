--------------------------- MODULE MCLocalCluster ---------------------------
(* A small instance of LocalCluster for TLC. *)
EXTENDS LocalCluster

Doc(i, v, t, m) ==
  [id |-> i, version |-> v, deleted |-> FALSE, text |-> t, metadata |-> m]

\* Four documents, one more than there are internal IDs; repeated terms, an
\* indexed field without tokens, two fields, dated documents.
SomeRequests ==
  {Doc(i, 1, [title |-> <<"x">>], NoMetadata) : i \in {"a", "b", "d"}}
    \cup {Doc("a", 2, [title |-> <<"x", "y", "x">>], [date |-> 1]),
          Doc("b", 3, [title |-> <<"y">>, body |-> <<"x">>], [date |-> 2]),
          Doc("c", 1, [body |-> <<"y", "x">>], NoMetadata),
          Doc("c", 2, [title |-> <<"x">>, body |-> <<>>], [date |-> 3])}
    \cup
  \* refused: an empty ID, an unindexed field, metadata in a field that is
  \* not stored, and metadata that is not of its field's type
  {Doc("", 1, [title |-> <<"x">>], NoMetadata), Doc("a", 2, [date |-> <<"x">>], NoMetadata),
   Doc("b", 3, [title |-> <<"x">>], [body |-> 1]), Doc("c", 3, [title |-> <<"x">>], [date |-> -1])}

SomeHash == ("" :> 7) @@ ("a" :> 4) @@ ("b" :> 9) @@ ("c" :> 5) @@ ("d" :> 2)

SomeErasures == {[id |-> "a", version |-> 3], [id |-> "b", version |-> 2]}

Token(t, p) == [term |-> t, at |-> p]
Term(t) == [kind |-> "term", text |-> <<Token(t, 1)>>]
Words(text) == [kind |-> "term", text |-> text]
Phrase(text) == [kind |-> "phrase", text |-> text]
And(l, r) == [kind |-> "and", left |-> l, right |-> r]
Or(l, r) == [kind |-> "or", left |-> l, right |-> r]
Not(q) == [kind |-> "not", operand |-> q]
In(f, q) == [kind |-> "field", field |-> f, query |-> q]
Boosted(b, q) == [kind |-> "boost", boost |-> b, query |-> q]
All == [kind |-> "all"]
Between(low, high, il, ih) ==
  [kind |-> "range", field |-> "date", lower |-> low, upper |-> high,
   includeLower |-> il, includeUpper |-> ih]

\* Every kind of node; a phrase with a gap where a stop word was, one of a
\* repeated term, an empty one; terms and phrases inside and outside of a
\* field; duplicate and contradictory clauses; ranges.  None is reversed:
\* docs/query_planning.md says that such a range is rejected, the code plans it.
SomeQueries ==
  {Term("x"), Words(<<Token("x", 1), Token("y", 2), Token("x", 3)>>), Words(<<>>),
   Phrase(<<Token("x", 1), Token("y", 2)>>), Phrase(<<Token("x", 2), Token("x", 4)>>),
   Phrase(<<>>),
   And(Term("y"), Or(Term("x"), All)),
   And(In("title", Term("x")), Not(In("body", Term("x")))),
   And(Term("x"), And(Not(Term("y")), Between({}, {2}, TRUE, TRUE))),
   Or(Boosted(2, In("title", Term("y"))), In("body", Phrase(<<Token("y", 1), Token("x", 2)>>))),
   And(Term("x"), Term("x")), Not(Words(<<>>)),
   Not(And(Term("x"), Not(Term("x")))),
   Between({1}, {3}, FALSE, TRUE), Or(Between({2}, {}, TRUE, TRUE), Term("y"))}
    \cup
  \* refused: an unknown field, a field that is not indexed, a range over
  \* text, a boost of zero, too deep, too many nodes, too long a phrase
  {In("none", Term("x")), In("date", Term("x")),
   [Between({1}, {}, TRUE, TRUE) EXCEPT !.field = "title"], Boosted(0, Term("x")),
   Not(Not(Not(Not(Term("x"))))),
   Or(Or(Term("x"), Phrase(<<Token("y", 1)>>)), And(Term("y"), Phrase(<<Token("x", 1)>>))),
   Phrase([i \in 1..4 |-> Token("x", i)])}

SomeDefaults == <<[name |-> "title", boost |-> 2], [name |-> "body", boost |-> 1]>>
SomeBoosts == [title |-> 1, body |-> 3]
SomeAlphabet == <<"a", "b", "body", "c", "d", "date", "title", "x", "y">>

\* Falls with the documents that have the term, grows with its frequency.
SomeWeight(count, holders, frequency, length, total) ==
  (count - holders + 1) * (frequency + 1) + (IF length * count > total THEN 0 ELSE 1)
=============================================================================
