------------------------------ MODULE MCQueryParts -----------------------------
(***************************************************************************)
(* Small instances for TLC of two machines that share nothing: Formats,    *)
(* whose inputs are the subjects, and QueryCache, which runs when the      *)
(* subject is the calls of a cache.                                        *)
(***************************************************************************)
EXTENDS Formats, QueryCache

SomeKeywords == ("OR" :> "or") @@ ("or" :> "or") @@ ("NOT" :> "not")

Lexeme(kind, text) == [kind |-> kind, text |-> <<text>>]

SomeLexemes ==
  {Lexeme("word", "w"), Lexeme("word", "2"), Lexeme("phrase", "w"), Lexeme("phrase", Space)}
    \cup {Lexeme(kind, kind) : kind \in Punctuation \cup {"and", "or", "not", "to"}}

SomePostings ==
  [doc : {1, 2, 6, 31}, positions : {<<>>, <<0>>, <<4, 5>>, <<5, 4>>, <<3, 31>>, <<2, 2>>}]

SomeElements ==
  [text |-> {Space, FormFeed, Quote, Backslash, "(", "w", "OR", "or"},
   lexemes |-> SomeLexemes,
   numbers |-> 0..MaxValue,
   postings |-> SomePostings,
   bytes |-> Byte,
   calls |-> {}]

SomeBounds == [text |-> 6, lexemes |-> 5, numbers |-> 2, postings |-> 2, bytes |-> 5,
               calls |-> 0]

\* Two generations of two queries, one with a longer key.
SomePlanBytes == [p \in Plans |-> IF p = "long" THEN 1 ELSE 0]
\* Results that fit three, two and one at a time, and one that never fits.
SomeResultBytes == [r \in Results |->
  CASE r = "none" -> 0 [] r = "few" -> 1 [] r = "many" -> 3 [] r = "huge" -> 6]

QueryPartsInit == InputInit /\ Init

QueryPartsNext ==
  \/ subject # "calls" /\ FormatsNext /\ UNCHANGED vars
  \/ subject = "calls" /\ Next /\ UNCHANGED inputVars

QueryPartsSpec == QueryPartsInit /\ [][QueryPartsNext]_<<inputVars, vars>>
=============================================================================
